---- MODULE Spec2Model ----
(***************************************************************************)
(* Model of the InstructMesh-PhysiOpt backend: the URL mapping of app.py,  *)
(* the pipeline cache of generate.py, the optimization stage of            *)
(* optimize.py, the /generate and /optimize handlers of app.py and the     *)
(* segmentation session of segment.py.                                     *)
(***************************************************************************)
EXTENDS Integers, Sequences, FiniteSets, TLC

VARIABLES
  url_in,             \* argument of the last get_relative_url call
  url_out,            \* its result
  cuda_available,     \* torch.cuda.is_available()
  text_pipeline,      \* generate.py: _text_pipeline
  image_pipeline,     \* generate.py: _image_pipeline
  constructed,        \* per kind: from_pretrained calls that returned an instance
  dropped,            \* per kind: cached references dropped by clear_pipeline_cache
  last_ret,           \* per kind: instance returned by the latest acquire since the
                      \* latest clear_pipeline_cache call (0: none)
  cache_out,          \* outcome of the latest pipeline-cache call
  fs,                 \* results/models: generation folder -> set of file names
  running,            \* the handler that holds the event loop
  opt,                \* the optimize_model run in progress
  opt_out,            \* outcome of the latest optimize request
  now,                \* datetime.now(), in seconds
  reqs,               \* the /generate requests received, in order of arrival
  POINT_SAM_AVAILABLE,  \* segment.py: whether the network was initialized
  current_ply_data,   \* segment.py: the segmentation session
  seg_out,            \* outcome of the latest segmentation request
  health,             \* the latest GET /health request
  main_reqs,          \* main.py: the /api/generate requests, in order of arrival
  generated_models,   \* main.py: generated_models/, file name -> content
  main_get            \* main.py: outcome of the latest GET /api/model/<name>

url_vars == <<url_in, url_out>>

cache_vars ==
  <<text_pipeline, image_pipeline, constructed, dropped, last_ret, cache_out>>

opt_vars == <<opt, opt_out>>

gen_vars == <<now, reqs>>

seg_vars == <<POINT_SAM_AVAILABLE, current_ply_data, seg_out>>

main_vars == <<main_reqs, generated_models, main_get>>

srv_vars == <<health, main_vars>>

vars ==
  <<url_in, url_out, cuda_available, text_pipeline, image_pipeline, constructed,
    dropped, last_ret, cache_out, fs, running, opt, opt_out, now, reqs,
    POINT_SAM_AVAILABLE, current_ply_data, seg_out, health, main_reqs,
    generated_models, main_get>>

\* Python's None, for every optional record-valued field.
None == [none |-> TRUE]

(***************************************************************************)
(* app.py: get_relative_url                                                *)
(*                                                                         *)
(* A path string is the sequence of its "/"-separated components; an       *)
(* absolute path starts with the component "/".  pathlib drops "." and     *)
(* empty components when it parses the string, and keeps "..".             *)
(***************************************************************************)

\* Longest tail of components appended to a prefix in the inputs tried.
MaxTail == 4

\* FILES_DIR = BASE_DIR.parent / "results" / "models", with the
\* installation directory written "srv".
FILES_DIR == <<"/", "srv", "results", "models">>

PathTokens == {"models", "abc", "f.glb", "."}

PathPrefixes ==
  { <<>>, <<"/">>, <<"/", "srv">>, <<"/", "srv", "results">>, FILES_DIR }

RECURSIVE TailsOf(_)
TailsOf(n) ==
  IF n = 0 THEN { <<>> }
  ELSE LET shorter == TailsOf(n - 1)
       IN  shorter \cup { Append(t, c) : t \in shorter, c \in PathTokens }

\* The argument values tried: None, "" and the strings prefix/tail.
UrlInputs ==
  { None } \cup
  { [raw |-> p \o t] : p \in PathPrefixes, t \in TailsOf(MaxTail) }

\* Path(file_path).parts
PathParts(raw) == SelectSeq(raw, LAMBDA c : c \notin {".", ""})

IsPrefixOf(p, s) == Len(p) <= Len(s) /\ SubSeq(s, 1, Len(p)) = p

\* tuple.index: the first position holding x (1-based here)
IndexOf(s, x) == CHOOSE i \in 1..Len(s) : s[i] = x /\ \A j \in 1..(i - 1) : s[j] # x

\* str(relative_path): a relative path without components prints as "."
RelString(rel) == IF rel = <<>> THEN <<".">> ELSE rel

\* The URL "/files/<a>/<b>/..." is written <<"files", a, b, ...>>; the
\* result None is written None.
get_relative_url(file_path) ==
  IF file_path = None \/ file_path.raw = <<>> THEN None
  ELSE LET parts == PathParts(file_path.raw)
       IN  IF IsPrefixOf(FILES_DIR, parts)
           THEN [url |-> <<"files">> \o
                         RelString(SubSeq(parts, Len(FILES_DIR) + 1, Len(parts)))]
           ELSE IF \E i \in 1..Len(parts) : parts[i] = "models"
                THEN LET models_idx == IndexOf(parts, "models")
                     IN  IF models_idx + 2 <= Len(parts)
                         THEN [url |-> <<"files", parts[models_idx + 1],
                                         parts[models_idx + 2]>>]
                         ELSE None
                ELSE None

\* No call has returned yet.
Pending == [pending |-> TRUE]

\* One call of get_relative_url on the argument drawn initially.
CallGetRelativeUrl ==
  /\ url_out = Pending
  /\ url_out' = get_relative_url(url_in)
  /\ UNCHANGED <<srv_vars, url_in, cuda_available, cache_vars, fs, running, opt_vars,
                 gen_vars, seg_vars>>

(***************************************************************************)
(* generate.py: the pipeline cache                                         *)
(***************************************************************************)

\* Instances constructed in one run of the model.
MaxInst == 2

Kinds == {"text", "image"}

Slot(kind) == IF kind = "text" THEN text_pipeline ELSE image_pipeline

TotalConstructed == constructed["text"] + constructed["image"]

\* Whether from_pretrained may return an instance within the bound.
FromPretrainedOutcomes == IF TotalConstructed < MaxInst THEN BOOLEAN ELSE {FALSE}

\* A load that calls from_pretrained whether or not the slot is filled.
LoadConstructsAlways(kind) == TRUE

\* Whether load_*_pipeline calls from_pretrained: only on an empty slot.
LoadConstructs(kind) == Slot(kind) = None

\* The slot of `kind` when load_*_pipeline ends (by return or by raising).
\* loaded_ok: from_pretrained returned; cuda_ok: pipeline.cuda() returned.
SlotAfterLoad(kind, loaded_ok, cuda_ok) ==
  IF LoadConstructs(kind) /\ loaded_ok
  THEN [id |-> TotalConstructed + 1,
        device |-> IF cuda_available /\ cuda_ok THEN "cuda" ELSE "cpu"]
  ELSE Slot(kind)

\* The outcomes <<loaded_ok, cuda_ok>> of the library calls a load makes:
\* none on a cached slot, pipeline.cuda() only with CUDA.
LoadOutcomes(kind) ==
  IF ~LoadConstructs(kind) THEN { <<TRUE, TRUE>> }
  ELSE { o \in FromPretrainedOutcomes \X BOOLEAN :
           o[2] \/ (o[1] /\ cuda_available) }

\* Whether load_*_pipeline raises instead of returning.
LoadRaises(kind, loaded_ok, cuda_ok) ==
  LoadConstructs(kind) /\ (~loaded_ok \/ (cuda_available /\ ~cuda_ok))

\* load_text_pipeline / load_image_pipeline
LoadPipeline(kind, loaded_ok, cuda_ok) ==
  LET after  == SlotAfterLoad(kind, loaded_ok, cuda_ok)
      built  == LoadConstructs(kind) /\ loaded_ok
      raised == LoadRaises(kind, loaded_ok, cuda_ok)
      ret    == IF raised THEN 0 ELSE after.id
  IN  /\ text_pipeline' = IF kind = "text" THEN after ELSE text_pipeline
      /\ image_pipeline' = IF kind = "image" THEN after ELSE image_pipeline
      /\ constructed' =
           [constructed EXCEPT ![kind] = IF built THEN @ + 1 ELSE @]
      /\ last_ret' = [last_ret EXCEPT ![kind] = IF raised THEN @ ELSE ret]
      /\ cache_out' = [op |-> "load", kind |-> kind, raised |-> raised,
                       ret |-> ret, built |-> built,
                       was_cached |-> Slot(kind) # None,
                       prev_ret |-> last_ret[kind]]
      /\ UNCHANGED dropped

\* A clear_pipeline_cache that drops the text pipeline only.
SlotAfterClearKeepsImage(kind) ==
  IF cuda_available /\ kind = "text" THEN None ELSE Slot(kind)

\* The slot after clear_pipeline_cache: emptied, but only with CUDA.
SlotAfterClear(kind) == IF cuda_available THEN None ELSE Slot(kind)

\* What a clear_pipeline_cache call did.  had: the kinds cached at the call;
\* moved: those whose cpu() returned; sweep_called: empty_cache was called;
\* swept: empty_cache and synchronize returned; raised: the call raised.
ClearOutcome(text_cpu_ok, image_cpu_ok, sweep_ok) ==
  [op |-> "clear",
   had |-> {k \in Kinds : Slot(k) # None},
   moved |-> {k \in Kinds : /\ cuda_available /\ Slot(k) # None
                            /\ IF k = "text" THEN text_cpu_ok
                                             ELSE image_cpu_ok},
   sweep_called |-> cuda_available,
   swept |-> cuda_available /\ sweep_ok,
   raised |-> cuda_available /\ ~sweep_ok]

\* A clear_pipeline_cache that lets a failing cpu() abort the call: the
\* slots of the failing kind and of the kinds after it stay filled and
\* nothing is swept.
ClearPipelineCacheAbortsOnFailure(text_cpu_ok, image_cpu_ok, sweep_ok) ==
  LET text_fails == cuda_available /\ text_pipeline # None /\ ~text_cpu_ok
      image_fails == cuda_available /\ image_pipeline # None /\ ~image_cpu_ok
      aborted == text_fails \/ image_fails
      after(k) == IF text_fails \/ (k = "image" /\ image_fails)
                  THEN Slot(k) ELSE SlotAfterClear(k)
  IN  /\ text_pipeline' = after("text")
      /\ image_pipeline' = after("image")
      /\ dropped' =
           [k \in Kinds |->
              IF Slot(k) # None /\ after(k) = None
              THEN dropped[k] + 1 ELSE dropped[k]]
      /\ last_ret' = [k \in Kinds |-> 0]
      /\ cache_out' =
           [ClearOutcome(text_cpu_ok, image_cpu_ok, sweep_ok) EXCEPT
              !.moved = {k \in @ : after(k) = None},
              !.sweep_called = cuda_available /\ ~aborted,
              !.swept = cuda_available /\ ~aborted /\ sweep_ok,
              !.raised = cuda_available /\ (aborted \/ ~sweep_ok)]
      /\ UNCHANGED constructed

\* A clear_pipeline_cache that returns at once when nothing is cached.
ClearPipelineCacheSkipsWhenEmpty(text_cpu_ok, image_cpu_ok, sweep_ok) ==
  LET empty == text_pipeline = None /\ image_pipeline = None
  IN  /\ text_pipeline' = SlotAfterClear("text")
      /\ image_pipeline' = SlotAfterClear("image")
      /\ dropped' =
           [k \in Kinds |->
              IF Slot(k) # None /\ SlotAfterClear(k) = None
              THEN dropped[k] + 1 ELSE dropped[k]]
      /\ last_ret' = [k \in Kinds |-> 0]
      /\ cache_out' =
           [ClearOutcome(text_cpu_ok, image_cpu_ok, sweep_ok) EXCEPT
              !.sweep_called = cuda_available /\ ~empty,
              !.swept = cuda_available /\ ~empty /\ sweep_ok,
              !.raised = cuda_available /\ ~empty /\ ~sweep_ok]
      /\ UNCHANGED constructed

\* A clear_pipeline_cache that drops a reference only after a successful
\* cpu().
ClearPipelineCacheKeepsOnFailure(text_cpu_ok, image_cpu_ok, sweep_ok) ==
  /\ text_pipeline' = IF text_cpu_ok THEN SlotAfterClear("text") ELSE text_pipeline
  /\ image_pipeline' =
       IF image_cpu_ok THEN SlotAfterClear("image") ELSE image_pipeline
  /\ dropped' =
       [k \in Kinds |->
          IF /\ Slot(k) # None
             /\ SlotAfterClear(k) = None
             /\ IF k = "text" THEN text_cpu_ok ELSE image_cpu_ok
          THEN dropped[k] + 1 ELSE dropped[k]]
  /\ last_ret' = [k \in Kinds |-> 0]
  /\ cache_out' = ClearOutcome(text_cpu_ok, image_cpu_ok, sweep_ok)
  /\ UNCHANGED constructed

\* clear_pipeline_cache.  text_cpu_ok / image_cpu_ok: pipeline.cpu() returned;
\* sweep_ok: torch.cuda.empty_cache() and synchronize() returned.
ClearPipelineCache(text_cpu_ok, image_cpu_ok, sweep_ok) ==
  /\ text_pipeline' = SlotAfterClear("text")
  /\ image_pipeline' = SlotAfterClear("image")
  /\ dropped' =
       [k \in Kinds |->
          IF Slot(k) # None /\ SlotAfterClear(k) = None
          THEN dropped[k] + 1 ELSE dropped[k]]
  /\ last_ret' = [k \in Kinds |-> 0]
  /\ cache_out' = ClearOutcome(text_cpu_ok, image_cpu_ok, sweep_ok)
  /\ UNCHANGED constructed

Idle == <<"idle">>

\* Handlers that start whatever another handler is doing.
LoopFreeAlways == TRUE

\* Every handler of app.py is an `async def` that calls its stage function
\* directly: a handler runs on the event loop, from its start or from the
\* await it resumes at, until it returns or awaits, and a handler starts or
\* resumes only when no other one is running.
LoopFree == running = Idle

\* A direct call of load_text_pipeline or load_image_pipeline.
CallLoadPipeline ==
  /\ running = Idle
  /\ \E kind \in Kinds :
       \E load \in LoadOutcomes(kind) : LoadPipeline(kind, load[1], load[2])
  /\ UNCHANGED <<srv_vars, url_vars, cuda_available, fs, running, opt_vars, gen_vars, seg_vars>>

\* A direct call of clear_pipeline_cache.
CallClearPipelineCache ==
  /\ running = Idle
  /\ \E text_cpu_ok \in BOOLEAN, image_cpu_ok \in BOOLEAN, sweep_ok \in BOOLEAN :
       ClearPipelineCache(text_cpu_ok, image_cpu_ok, sweep_ok)
  /\ UNCHANGED <<srv_vars, url_vars, cuda_available, fs, running, opt_vars, gen_vars, seg_vars>>

(***************************************************************************)
(* The artifact store: results/models/<generation id>/<file>               *)
(***************************************************************************)

\* Seconds of wall-clock time, 0..MaxTime.
MaxTime == 1

\* /generate requests in one run of the model.
MaxReq == 2

\* A generation id "<timestamp>" is <<t, 0>>, "<timestamp>_<n>" is <<t, n>>.
GenIds == (0..MaxTime) \X (0..MaxReq)

\* The folder name of a generation id: strftime("%Y%m%d_%H%M%S"), with the
\* suffix "_<n>" when n > 0.
IdName(g) ==
  IF g[2] = 0 THEN ToString(g[1]) ELSE ToString(g[1]) \o "_" \o ToString(g[2])

\* str(FILES_DIR / generation_id / name)
ResultPath(g, name) == [raw |-> FILES_DIR \o <<IdName(g), name>>]

FolderExists(files, g) == g \in DOMAIN files

FileExists(files, g, name) == g \in DOMAIN files /\ name \in files[g]

\* Path.mkdir(parents=True, exist_ok=True)
Mkdir(files, g) ==
  [h \in DOMAIN files \cup {g} |-> IF h \in DOMAIN files THEN files[h] ELSE {}]

\* Writing (creating or overwriting) files of an existing folder.
WriteFiles(files, g, names) == [files EXCEPT ![g] = @ \cup names]

(***************************************************************************)
(* optimize.py: clear_cuda_memory, optimize_model                          *)
(* app.py: optimize_3d_model                                               *)
(***************************************************************************)

\* Precondition checks that look for the slat file first.
EndpointPreconditionSlatFirst(files, g) ==
  IF ~FileExists(files, g, "slat_00.pt") THEN "400"
  ELSE IF ~FolderExists(files, g) THEN "404"
  ELSE "ok"

\* app.py: the endpoint's precondition checks, folder first.
EndpointPrecondition(files, g) ==
  IF ~FolderExists(files, g) THEN "404"
  ELSE IF ~FileExists(files, g, "slat_00.pt") THEN "400"
  ELSE "ok"

\* An optimize_model without the slat check.
OptimizeModelEntryNoCheck(files, g) == "clear"

\* optimize.py lines 114-119: the slat check, then the memory clearing.
OptimizeModelEntry(files, g) ==
  IF FileExists(files, g, "slat_00.pt") THEN "clear" ELSE "FileNotFoundError"

\* What the endpoint answers for an outcome of optimize_model.
EndpointStatus(outcome) ==
  IF outcome = "returned_success" THEN "200" ELSE "500"

NoUrls ==
  [optimized_model_url |-> None, stresses_url |-> None,
   stresses_optimized_url |-> None]

\* app.py lines 296-324: the endpoint's response for an outcome of
\* optimize_model that left `files` on disk.  A key the response does not
\* carry is written None.
OptimizeResponse(outcome, files, g) ==
  IF EndpointStatus(outcome) # "200" THEN [status |-> "500"] @@ NoUrls
  ELSE IF ~FileExists(files, g, "sample_optimized.glb")
  THEN [status |-> "500"] @@ NoUrls
  ELSE [status |-> "200",
        optimized_model_url |->
          get_relative_url(ResultPath(g, "sample_optimized.glb")),
        stresses_url |->
          IF FileExists(files, g, "stresses.png")
          THEN get_relative_url(ResultPath(g, "stresses.png")) ELSE None,
        stresses_optimized_url |->
          IF FileExists(files, g, "stresses_optimized.png")
          THEN get_relative_url(ResultPath(g, "stresses_optimized.png"))
          ELSE None]

\* optimize.py lines 225-248: whether the run reached the statements that
\* delete optimizer, optimizer_factory and slat, collect garbage and call
\* torch.cuda.empty_cache.  They are the last statements of the try block;
\* the except branch builds the failure result without them.
ReleaseReached(cause) == cause \in {"", "cleanup"}

\* optimize_model ends with `outcome` because of `cause`, after `written`
\* of its export writes, leaving `files` on disk.
OptEnd(outcome, cause, written, files) ==
  /\ fs' = files
  /\ opt' = None
  /\ running' = Idle
  /\ opt_out' =
       [caller |-> opt.caller,
        had_folder |-> opt.had_folder, had_slat |-> opt.had_slat,
        outcome |-> outcome, cause |-> cause, written |-> written,
        cleared |-> opt.cleared, loaded |-> opt.loaded, factory |-> opt.factory,
        release_reached |-> ReleaseReached(cause),
        changed |-> \/ files # opt.fs0
                    \/ <<text_pipeline', image_pipeline'>> # opt.cache0]
       @@ (IF opt.caller = "endpoint"
           THEN OptimizeResponse(outcome, files, opt.folder)
           ELSE [status |-> outcome] @@ NoUrls)

\* optimize_model ends before its export step.
OptFinish(outcome, cause) == OptEnd(outcome, cause, 0, fs)

\* A call optimize_model(folder_path, save_slat) about to start.
NewRun(caller, g, save_slat) ==
  [pc |-> "entry", caller |-> caller, folder |-> g, save_slat |-> save_slat,
   had_folder |-> FolderExists(fs, g),
   had_slat |-> FileExists(fs, g, "slat_00.pt"),
   cleared |-> FALSE, loaded |-> FALSE, factory |-> FALSE,
   fs0 |-> fs, cache0 |-> <<text_pipeline, image_pipeline>>]

\* POST /optimize/{generation_id}, up to the call of optimize_model, which
\* the endpoint makes with save_slat=False (line 294).
OptimizeRequest ==
  /\ LoopFree
  /\ \E g \in GenIds :
       LET pre == EndpointPrecondition(fs, g)
       IN  IF pre = "ok"
           THEN /\ opt' = NewRun("endpoint", g, FALSE)
                /\ running' = <<"optimize">>
                /\ UNCHANGED opt_out
           ELSE /\ opt_out' =
                     [caller |-> "endpoint",
                      had_folder |-> FolderExists(fs, g),
                      had_slat |-> FileExists(fs, g, "slat_00.pt"),
                      outcome |-> "rejected",
                      cause |-> IF pre = "404" THEN "missing_folder"
                                ELSE "missing_slat",
                      written |-> 0, status |-> pre,
                      cleared |-> FALSE, loaded |-> FALSE, factory |-> FALSE,
                      release_reached |-> FALSE,
                      changed |-> FALSE] @@ NoUrls
                /\ UNCHANGED <<opt, running>>
  /\ UNCHANGED <<srv_vars, url_vars, cuda_available, cache_vars, fs, gen_vars, seg_vars>>

\* A direct call optimize_model(folder_path, save_slat), save_slat one of
\* `flags`.
CallOptimizeModelWith(flags) ==
  /\ running = Idle
  /\ \E g \in GenIds, save_slat \in flags :
       /\ opt' = NewRun("direct", g, save_slat)
       /\ running' = <<"optimize">>
  /\ UNCHANGED <<srv_vars, url_vars, cuda_available, cache_vars, fs, opt_out, gen_vars, seg_vars>>

\* A direct call optimize_model(folder_path): save_slat keeps its default,
\* False (line 100).
CallOptimizeModel == CallOptimizeModelWith({FALSE})

\* A direct call with either value of save_slat.
CallOptimizeModelSaveSlat == CallOptimizeModelWith(BOOLEAN)

\* optimize_model, lines 112-119: the slat precondition.
OptEntry ==
  /\ running = <<"optimize">>
  /\ UNCHANGED <<srv_vars, url_vars, cuda_available, cache_vars, gen_vars, seg_vars>>
  /\ opt.pc = "entry"
  /\ IF OptimizeModelEntry(fs, opt.folder) = "clear"
     THEN /\ opt' = [opt EXCEPT !.pc = "clear"]
          /\ UNCHANGED <<fs, running, opt_out>>
     ELSE OptFinish("FileNotFoundError", "missing_slat")

\* optimize_model, line 122: clear_cuda_memory(aggressive=True), called
\* before the try block.
\* stats_ok: the memory statistics before the eviction were read;
\* sweeps_ok: gc and the torch.cuda calls after the eviction returned.
OptClear ==
  /\ running = <<"optimize">>
  /\ opt.pc = "clear"
  /\ IF cuda_available
     THEN \E stats_ok \in BOOLEAN :
            IF ~stats_ok
            THEN /\ UNCHANGED cache_vars
                 /\ OptFinish("raised", "memory_clearing")
            ELSE /\ \E text_cpu_ok \in BOOLEAN, image_cpu_ok \in BOOLEAN,
                       sweep_ok \in BOOLEAN :
                      ClearPipelineCache(text_cpu_ok, image_cpu_ok, sweep_ok)
                 /\ \E sweeps_ok \in BOOLEAN :
                      IF sweeps_ok
                      THEN /\ opt' = [opt EXCEPT !.pc = "load_slat",
                                                 !.cleared = TRUE]
                           /\ UNCHANGED <<fs, running, opt_out>>
                      ELSE OptFinish("raised", "memory_clearing")
     ELSE /\ opt' = [opt EXCEPT !.pc = "load_slat", !.cleared = TRUE]
          /\ UNCHANGED <<cache_vars, fs, running, opt_out>>
  /\ UNCHANGED <<srv_vars, url_vars, cuda_available, gen_vars, seg_vars>>

\* optimize_model, lines 126-161: load the bundle, build factory and optimizer.
\* slat_ok: SlatPayload.from_path read the file; setup_ok: the factory, the
\* boundary conditions, the optimizer and the final memory clear succeeded.
OptLoadSlat ==
  /\ running = <<"optimize">>
  /\ UNCHANGED <<srv_vars, url_vars, cuda_available, cache_vars, gen_vars, seg_vars>>
  /\ opt.pc = "load_slat"
  /\ \E slat_ok \in BOOLEAN :
       IF ~slat_ok
       THEN OptFinish("returned_failure", "malformed_slat")
       ELSE \E setup_ok \in BOOLEAN :
              IF setup_ok
              THEN /\ opt' = [opt EXCEPT !.pc = "run", !.loaded = TRUE,
                                         !.factory = TRUE]
                   /\ UNCHANGED <<fs, running, opt_out>>
              ELSE OptFinish("returned_failure", "setup")

\* optimize_model, lines 165-176: optimizer.optimize(), then with save_slat
\* the optimizer states are saved to slat_optim_states.pt.
\* opened: torch.save created the file; saved: it returned.
OptRun ==
  /\ running = <<"optimize">>
  /\ UNCHANGED <<srv_vars, url_vars, cuda_available, cache_vars, gen_vars, seg_vars>>
  /\ opt.pc = "run"
  /\ \E run_ok \in BOOLEAN :
       IF ~run_ok
       THEN OptFinish("returned_failure", "numerical")
       ELSE IF ~opt.save_slat
       THEN /\ opt' = [opt EXCEPT !.pc = "export"]
            /\ UNCHANGED <<fs, running, opt_out>>
       ELSE \E opened \in BOOLEAN, saved \in BOOLEAN :
              LET files == IF opened
                           THEN WriteFiles(fs, opt.folder,
                                           {"slat_optim_states.pt"})
                           ELSE fs
              IN  /\ saved => opened
                  /\ IF saved
                     THEN /\ opt' = [opt EXCEPT !.pc = "export"]
                          /\ fs' = files
                          /\ UNCHANGED <<running, opt_out>>
                     ELSE OptEnd("returned_failure", "save_states", 0, files)

\* The files on disk after the export and plotting steps that ran.
ExportSteps == <<"sample_optimized.glb", "stresses.png", "stresses_optimized.png">>

\* An export that skips the stress plots.
FilesAfterExportGlbOnly(files, g, done) ==
  WriteFiles(files, g, {ExportSteps[i] : i \in 1..(IF done > 1 THEN 1 ELSE done)})

\* An export that also rewrites the generation's GLB.
FilesAfterExportOverGeneration(files, g, done) ==
  WriteFiles(files, g, {ExportSteps[i] : i \in 1..done}
                         \cup (IF done > 0 THEN {"sample_00.glb"} ELSE {}))

FilesAfterExport(files, g, done) ==
  WriteFiles(files, g, {ExportSteps[i] : i \in 1..done})

\* optimize_model, lines 179-238: export the GLB, plot both stress images,
\* release the intermediates.  done: how many of the three writes succeeded;
\* released: the cleanup of lines 226-231 returned.
OptExport ==
  /\ running = <<"optimize">>
  /\ UNCHANGED <<srv_vars, url_vars, cuda_available, cache_vars, gen_vars, seg_vars>>
  /\ opt.pc = "export"
  /\ \E done \in 0..Len(ExportSteps) :
       IF done < Len(ExportSteps)
       THEN OptEnd("returned_failure", "export", done,
                   FilesAfterExport(fs, opt.folder, done))
       ELSE \E released \in BOOLEAN :
              OptEnd(IF released THEN "returned_success" ELSE "returned_failure",
                     IF released THEN "" ELSE "cleanup", done,
                     FilesAfterExport(fs, opt.folder, done))

(***************************************************************************)
(* app.py: POST /generate                                                  *)
(*                                                                         *)
(* The handler is a coroutine: it runs without interruption from one       *)
(* await to the next, and `running` names the handler that is running.     *)
(***************************************************************************)

\* Uploaded files per request.
MaxUploads == 1

\* The file names of the uploads tried, split at their dots: no name,
\* photo.jpg and scan.glb.
UploadFilenames == {<<>>, <<"photo", "jpg">>, <<"scan", "glb">>}

\* Path(name).suffix of a name split at its dots.
Suffix(parts) == IF Len(parts) > 1 THEN "." \o parts[Len(parts)] ELSE ""

\* Line 209: Path(uf.filename or "image").suffix or ".png"
UploadExt(filename) ==
  LET suffix == Suffix(IF filename = <<>> THEN <<"image">> ELSE filename)
  IN  IF suffix = "" THEN ".png" ELSE suffix

\* Line 210: f"input_{i}{ext}", i counted from 0
InputName(i, filename) ==
  "input_" \o ToString(i - 1) \o UploadExt(filename)

\* The Content-Type headers of the image download tried.
ContentTypes == {"", "image/png", "image/jpeg", "image/jpg"}

\* Lines 125-127: ".jpg" if "jpeg" in ct or "jpg" in ct else ".png", over
\* ContentTypes, and the path the download is written to.
DownloadPath(ct) ==
  [stem |-> "generated_image",
   ext |-> IF ct \in {"image/jpeg", "image/jpg"} THEN ".jpg" ELSE ".png"]

\* The file name of a path.
Basename(path) == path.stem \o path.ext

\* An id choice without the collision loop.
NewGenerationIdNoLoop(files, base_id) == <<base_id, 0>>

\* Lines 194-199: the timestamp, or the timestamp with the first suffix
\* _1, _2, ... whose folder does not exist.
NewGenerationId(files, base_id) ==
  LET n == CHOOSE k \in 0..Cardinality(DOMAIN files) :
             /\ ~FolderExists(files, <<base_id, k>>)
             /\ \A j \in 0..(k - 1) : FolderExists(files, <<base_id, j>>)
  IN  <<base_id, n>>

NoId == <<>>

NoFiles == [glb |-> None, obj |-> None, ply |-> None, slat |-> None]

\* An error response with the HTTP status `status`.
Failure(status) == [status |-> status, model_url |-> None, files |-> NoFiles]

\* A handler that answers 500 for every exception raised inside its try.
HandlerStatusCatchAll(exc) == "500"

\* app.py lines 261-265 (and 326-330): an HTTPException raised inside the
\* try is re-raised with its own status; any other exception is answered
\* 500.
HandlerStatus(exc) == IF exc.http THEN exc.status ELSE "500"

\* Lines 208 and 217: the HTTPException of a rejected upload.
UploadRejected == [http |-> TRUE, status |-> "400"]

\* An exception of generate_image or _download_image.
ServiceError == [http |-> FALSE]

\* The request r ends with `response`, computed from the result of
\* generate_3d_from_image.
Respond(r, response) ==
  /\ reqs' = [reqs EXCEPT ![r].pc = "done", ![r].status = response.status,
                          ![r].model_url = response.model_url,
                          ![r].files = response.files,
                          ![r].calls = @ \cup {"generate_3d_from_image"}]
  /\ running' = Idle

\* Lines 185-201: validate the text, choose the id, create the folder.
\* text_ok: the text is not empty after trimming.
GenerateStartWithin(max) ==
  /\ LoopFree
  /\ Len(reqs) < max
  /\ \E text_ok \in BOOLEAN :
       LET r == Len(reqs) + 1
           generation_id == NewGenerationId(fs, now)
           req == [i |-> 1, base_id |-> now, model_url |-> None,
                   downloaded |-> None,
                   files |-> NoFiles, text_ok |-> text_ok,
                   bad_upload |-> FALSE, calls |-> {}]
       IN  IF ~text_ok
           THEN /\ reqs' = Append(reqs, req @@ [pc |-> "done", status |-> "400",
                                                 generation_id |-> NoId])
                /\ UNCHANGED <<fs, running>>
           ELSE /\ reqs' = Append(reqs, req @@ [pc |-> "check_upload",
                                                 status |-> "pending",
                                                 generation_id |-> generation_id])
                /\ fs' = Mkdir(fs, generation_id)
                /\ running' = <<"generate", r>>
  /\ UNCHANGED <<srv_vars, url_vars, cuda_available, cache_vars, opt_vars, now, seg_vars>>

\* A /generate request arrives, one of at most MaxReq.
GenerateStart == GenerateStartWithin(MaxReq)

\* The number of /generate requests in the runs that interleave generation
\* with optimization.
MaxPipeReq == 1

\* A /generate request arrives, one of at most MaxPipeReq.
PipeGenerateStart == GenerateStartWithin(MaxPipeReq)

\* Lines 206-213: the next upload's content type is checked and its file is
\* opened for writing; the handler then awaits the upload's bytes.
\* more: the request holds an i-th upload; is_image: its content type
\* starts with "image/"; filename: the file name it was sent under, one of
\* `filenames`.
GenCheckUploadOf(filenames) ==
  /\ \E r \in 1..Len(reqs), more \in BOOLEAN :
       /\ running = <<"generate", r>>
       /\ reqs[r].pc = "check_upload"
       /\ more => reqs[r].i <= MaxUploads
       /\ IF ~more
          THEN /\ reqs' = [reqs EXCEPT ![r].pc = "generate_image"]
               /\ UNCHANGED <<fs, running>>
          ELSE \E is_image \in BOOLEAN :
                 IF ~is_image
                 THEN /\ reqs' = [reqs EXCEPT
                        ![r].pc = "done", ![r].bad_upload = TRUE,
                        ![r].status = HandlerStatus(UploadRejected)]
                      /\ running' = Idle
                      /\ UNCHANGED fs
                 ELSE \E filename \in filenames :
                      /\ fs' = WriteFiles(fs, reqs[r].generation_id,
                                          {InputName(reqs[r].i, filename)})
                      /\ reqs' = [reqs EXCEPT ![r].pc = "await_read"]
                      /\ running' = Idle
  /\ UNCHANGED <<srv_vars, url_vars, cuda_available, cache_vars, opt_vars, now, seg_vars>>

\* The uploads of a /generate request carry any name of UploadFilenames.
GenCheckUpload == GenCheckUploadOf(UploadFilenames)

\* The upload names in the runs of several requests: every upload is sent
\* as photo.jpg.
JpegFilenames == {<<"photo", "jpg">>}

JpegCheckUpload == GenCheckUploadOf(JpegFilenames)

\* Lines 213-218: the bytes arrive, the file is written and verified.
\* verifies: Image.open(path).verify() accepts the file.
GenResume ==
  /\ LoopFree
  /\ \E r \in 1..Len(reqs), verifies \in BOOLEAN :
       /\ reqs[r].pc = "await_read"
       /\ IF ~verifies
          THEN /\ reqs' = [reqs EXCEPT
                 ![r].pc = "done", ![r].bad_upload = TRUE,
                 ![r].status = HandlerStatus(UploadRejected)]
               /\ UNCHANGED running
          ELSE /\ reqs' = [reqs EXCEPT ![r].pc = "check_upload", ![r].i = @ + 1]
               /\ running' = <<"generate", r>>
  /\ UNCHANGED <<srv_vars, url_vars, cuda_available, cache_vars, opt_vars, now, fs, seg_vars>>

\* Lines 224-228 with _download_image (121-131): generate_image, then the
\* download into the folder.  opened: generate_image returned a URL and
\* urlopen answered, with the Content-Type ct, one of `content_types`; the
\* file is then opened for writing, which creates it; read_ok: resp.read()
\* and the write returned.
GenImageOf(content_types) ==
  /\ \E r \in 1..Len(reqs) :
       /\ running = <<"generate", r>>
       /\ reqs[r].pc = "generate_image"
       /\ \E opened \in BOOLEAN :
            IF ~opened
            THEN /\ reqs' = [reqs EXCEPT
                      ![r].pc = "done",
                      ![r].calls = @ \cup {"generate_image"},
                      ![r].status = HandlerStatus(ServiceError)]
                 /\ running' = Idle
                 /\ UNCHANGED fs
            ELSE \E ct \in content_types, read_ok \in BOOLEAN :
                 /\ fs' = WriteFiles(fs, reqs[r].generation_id,
                                     {Basename(DownloadPath(ct))})
                 /\ IF read_ok
                    THEN /\ reqs' = [reqs EXCEPT
                              ![r].pc = "sample",
                              ![r].downloaded = DownloadPath(ct),
                              ![r].calls = @ \cup {"generate_image"}]
                         /\ UNCHANGED running
                    ELSE /\ reqs' = [reqs EXCEPT
                              ![r].pc = "done",
                              ![r].calls = @ \cup {"generate_image"},
                              ![r].status = HandlerStatus(ServiceError)]
                         /\ running' = Idle
  /\ UNCHANGED <<srv_vars, url_vars, cuda_available, cache_vars, opt_vars, now, seg_vars>>

\* The download answers with any Content-Type of ContentTypes.
GenImage == GenImageOf(ContentTypes)

\* The Content-Type of the download in the runs of several requests.
JpegContentTypes == {"image/jpeg"}

JpegImage == GenImageOf(JpegContentTypes)

\* generate.py, sample: the writes in the order the code makes them.  The
\* first is the copy of the input image, "image" + os.path.splitext(image)[1]
\* (lines 156-157).
SampleSteps(image) ==
  <<"image" \o image.ext, "sample_00.obj", "sample_00.ply", "slat_00.pt">>

SampleStepCount == Len(SampleSteps(DownloadPath("")))

\* A sample() that does not save the sparse latent.
SampleFilesNoSlat(image, done, glb_ok) ==
  ({SampleSteps(image)[i] : i \in 1..done} \ {"slat_00.pt"}) \cup
  (IF glb_ok /\ done >= 2 THEN {"sample_00.glb"} ELSE {})

\* The files written by a sample() that completed `done` of SampleSteps; the
\* GLB is exported after the OBJ and its failure is swallowed.
SampleFiles(image, done, glb_ok) ==
  {SampleSteps(image)[i] : i \in 1..done} \cup
  (IF glb_ok /\ done >= 2 THEN {"sample_00.glb"} ELSE {})

\* A generation that fails when the GLB export fails.
SampleResultsGlbFatal(g, done, glb_ok) ==
  IF done < SampleStepCount \/ ~glb_ok THEN [success |-> FALSE]
  ELSE [success |-> TRUE,
        glb_path |-> ResultPath(g, "sample_00.glb"),
        obj_path |-> ResultPath(g, "sample_00.obj"),
        ply_path |-> ResultPath(g, "sample_00.ply"),
        slat_path |-> ResultPath(g, "slat_00.pt")]

\* generate.py lines 263-299: what generate_3d_from_image returns for a
\* sample() into the folder g that completed `done` of SampleSteps: a
\* failure when sample() raised, else the paths recorded for sample_00,
\* without a GLB path when the GLB export failed.
SampleResults(g, done, glb_ok) ==
  IF done < SampleStepCount THEN [success |-> FALSE]
  ELSE [success |-> TRUE,
        glb_path |-> IF glb_ok THEN ResultPath(g, "sample_00.glb") ELSE None,
        obj_path |-> ResultPath(g, "sample_00.obj"),
        ply_path |-> ResultPath(g, "sample_00.ply"),
        slat_path |-> ResultPath(g, "slat_00.pt")]

\* app.py lines 238-259: the response for a result of
\* generate_3d_from_image.
GenerateResponse(results) ==
  IF ~results.success THEN Failure("500")
  ELSE LET model_path == IF results.glb_path # None THEN results.glb_path
                         ELSE results.obj_path
       IN  IF model_path = None THEN Failure("500")
           ELSE [status |-> "200",
                 model_url |-> get_relative_url(model_path),
                 files |-> [glb |-> get_relative_url(results.glb_path),
                            obj |-> get_relative_url(results.obj_path),
                            ply |-> get_relative_url(results.ply_path),
                            slat |-> get_relative_url(results.slat_path)]]

\* Lines 231-259: generate_3d_from_image and the response.
\* run_ok: pipeline.run returned; done: how many of SampleSteps completed;
\* glb_ok: the GLB export succeeded.
GenSample ==
  /\ \E r \in 1..Len(reqs) :
       /\ running = <<"generate", r>>
       /\ reqs[r].pc = "sample"
       /\ \E load \in LoadOutcomes("image") :
            /\ LoadPipeline("image", load[1], load[2])
            /\ IF LoadRaises("image", load[1], load[2])
               THEN /\ Respond(r, GenerateResponse([success |-> FALSE]))
                    /\ UNCHANGED fs
               ELSE \E run_ok \in BOOLEAN :
                 IF ~run_ok
                 THEN /\ Respond(r, GenerateResponse([success |-> FALSE]))
                      /\ UNCHANGED fs
                 ELSE \E done \in 0..SampleStepCount :
                      \E glb_ok \in (IF done >= 2 THEN BOOLEAN ELSE {FALSE}) :
                        /\ fs' = WriteFiles(fs, reqs[r].generation_id,
                                            SampleFiles(reqs[r].downloaded,
                                                        done, glb_ok))
                        /\ Respond(r, GenerateResponse(
                                        SampleResults(reqs[r].generation_id,
                                                      done, glb_ok)))
  /\ UNCHANGED <<srv_vars, url_vars, cuda_available, opt_vars, now, seg_vars>>

\* A second of wall-clock time passes.
Tick ==
  /\ running = Idle
  /\ now < MaxTime
  /\ now' = now + 1
  /\ UNCHANGED <<srv_vars, url_vars, cuda_available, cache_vars, opt_vars, fs, running, reqs, seg_vars>>

(***************************************************************************)
(* app.py: GET /health, and the heavy calls of the other handlers          *)
(***************************************************************************)

\* The states of a /generate handler inside its heavy calls: generate_image
\* with _download_image (lines 224-228) and generate_3d_from_image (line
\* 231).
HeavyPcs == {"generate_image", "sample"}

\* The heavy calls in progress: the optimize_model run of /optimize (line
\* 292) and the /generate handlers inside HeavyPcs.  The load and the
\* prediction of the segmentation handlers start and end within one step.
HeavyCalls ==
  (IF opt # None THEN { <<"optimize">> } ELSE {}) \cup
  { <<"generate", r>> : r \in { q \in 1..Len(reqs) : reqs[q].pc \in HeavyPcs } }

\* A GET /health request arrives; the server accepts it whatever the event
\* loop is doing.  `during` holds the heavy calls in progress at that time.
HealthArrive ==
  /\ IF health = None THEN TRUE ELSE health.state = "answered"
  /\ health' = [state |-> "pending", during |-> HeavyCalls]
  /\ UNCHANGED <<main_vars, url_vars, cuda_available, cache_vars, fs, running,
                 opt_vars, gen_vars, seg_vars>>

\* Lines 165-173: health_check runs on the event loop and answers.
\* calls_over: the heavy calls in progress at the arrival have all ended.
HealthAnswer ==
  /\ IF health = None THEN FALSE ELSE health.state = "pending"
  /\ LoopFree
  /\ health' = [state |-> "answered", during |-> health.during,
                status |-> "200",
                calls_over |-> health.during \cap HeavyCalls = {}]
  /\ UNCHANGED <<main_vars, url_vars, cuda_available, cache_vars, fs, running,
                 opt_vars, gen_vars, seg_vars>>

(***************************************************************************)
(* main.py with trellis_generator.py: the standalone generator service     *)
(*                                                                         *)
(* A handler runs on the event loop from one await to the next, so each    *)
(* action below is one such stretch; generate_3d_model runs on a thread of *)
(* the default executor, several of them at a time.  The uploaded image    *)
(* is copied to a temporary file that is removed again; it is not kept in  *)
(* the state.                                                              *)
(***************************************************************************)

\* /api/generate requests in one run of the model.
MaxMainReq == 2

\* What a request carries: a description, an image, both or neither.
MainInputs == {"neither", "description", "image", "both"}

\* main.py line 69: f"model_{tempfile.gettempprefix()}{os.getpid()}.glb".
\* The prefix and the process id are those of the server process; nothing
\* of request r enters the name.
OutputFilename(r) ==
  [stem |-> "model_", prefix |-> "tmp", pid |-> "getpid", ext |-> ".glb"]

\* main.py lines 94-97: "/api/model/<basename of the model path>".
MainModelUrl(filename) == <<"api", "model", filename>>

MainReq(pc, status, input) ==
  [pc |-> pc, status |-> status, input |-> input, output |-> None,
   model_url |-> None]

\* main.py lines 52-60 and 68-80: the request arrives.  Without description
\* and image it is answered 400; with an image the handler awaits its bytes;
\* otherwise the generation is handed to the executor.
MainGenerateArrive ==
  /\ Len(main_reqs) < MaxMainReq
  /\ \E input \in MainInputs :
       LET r == Len(main_reqs) + 1
       IN  main_reqs' =
             Append(main_reqs,
               IF input = "neither" THEN MainReq("done", "400", input)
               ELSE IF input \in {"image", "both"}
               THEN MainReq("await_read", "pending", input)
               ELSE [MainReq("queued", "pending", input) EXCEPT
                       !.output = OutputFilename(r)])
  /\ UNCHANGED <<generated_models, main_get, health, url_vars, cuda_available,
                 cache_vars, fs, running, opt_vars, gen_vars, seg_vars>>

\* The ways lines 60-63 end: the temporary file was written; a ValueError
\* was raised (image.read(), or NamedTemporaryFile for a suffix with an
\* embedded null byte, taken from the image's file name); another exception
\* was raised (temp_images/ is missing: it is created only afterwards, line
\* 66).
TmpOutcomes == {"written", "ValueError", "OSError"}

\* main.py lines 101-104: a ValueError is answered 400, any other exception
\* 500.
MainExceptionStatus(exc) == IF exc = "ValueError" THEN "400" ELSE "500"

\* main.py lines 60-80: the image's bytes arrived and the temporary file in
\* temp_images/ is created and written, ending as `tmp` says.
MainGenerateResume ==
  /\ \E r \in 1..Len(main_reqs), tmp \in TmpOutcomes :
       /\ main_reqs[r].pc = "await_read"
       /\ main_reqs' =
            IF tmp = "written"
            THEN [main_reqs EXCEPT ![r].pc = "queued",
                                   ![r].output = OutputFilename(r)]
            ELSE [main_reqs EXCEPT ![r].pc = "done",
                                   ![r].status = MainExceptionStatus(tmp)]
  /\ UNCHANGED <<generated_models, main_get, health, url_vars, cuda_available,
                 cache_vars, fs, running, opt_vars, gen_vars, seg_vars>>

\* trellis_generator.py lines 35-73, on an executor thread: the output
\* folder is made and the output file is opened for writing, which creates
\* or truncates it.  opened: makedirs and open returned.
MainExecutorOpen ==
  /\ \E r \in 1..Len(main_reqs), opened \in BOOLEAN :
       /\ main_reqs[r].pc = "queued"
       /\ IF opened
          THEN /\ main_reqs' = [main_reqs EXCEPT ![r].pc = "open"]
               /\ generated_models' =
                    (main_reqs[r].output :> [by |-> r, complete |-> FALSE])
                      @@ generated_models
          ELSE /\ main_reqs' = [main_reqs EXCEPT ![r].pc = "raised"]
               /\ UNCHANGED generated_models
  /\ UNCHANGED <<main_get, health, url_vars, cuda_available, cache_vars, fs,
                 running, opt_vars, gen_vars, seg_vars>>

\* trellis_generator.py lines 73-81: the thread writes the model from the
\* start of the file, closes it and returns the path.
MainExecutorWrite ==
  /\ \E r \in 1..Len(main_reqs) :
       /\ main_reqs[r].pc = "open"
       /\ main_reqs' = [main_reqs EXCEPT ![r].pc = "returned"]
       /\ generated_models' =
            (main_reqs[r].output :> [by |-> r, complete |-> TRUE])
              @@ generated_models
  /\ UNCHANGED <<main_get, health, url_vars, cuda_available, cache_vars, fs,
                 running, opt_vars, gen_vars, seg_vars>>

\* main.py lines 82-104: the executor call ended; the handler answers 500
\* when it raised (an OSError of makedirs or open) or left no file (the
\* HTTPException of line 91, caught at 103 like any exception that is no
\* ValueError), and the model's URL otherwise.
MainGenerateRespond ==
  /\ \E r \in 1..Len(main_reqs) :
       /\ main_reqs[r].pc \in {"raised", "returned"}
       /\ main_reqs' =
            IF \/ main_reqs[r].pc = "raised"
               \/ main_reqs[r].output \notin DOMAIN generated_models
            THEN [main_reqs EXCEPT
                    ![r].pc = "done",
                    ![r].status = MainExceptionStatus("OSError")]
            ELSE [main_reqs EXCEPT
                    ![r].pc = "done", ![r].status = "200",
                    ![r].model_url = MainModelUrl(main_reqs[r].output)]
  /\ UNCHANGED <<generated_models, main_get, health, url_vars, cuda_available,
                 cache_vars, fs, running, opt_vars, gen_vars, seg_vars>>

\* trellis_generator.py line 76: the number of bytes of the model written.
PlaceholderLength == 20

\* The size of a file of generated_models/: opened for writing it is empty
\* (line 73 truncates it), written it holds the model (lines 73-76).
FileLength(file) == IF file.complete THEN PlaceholderLength ELSE 0

\* main.py lines 106-126: GET of a model_url returned earlier, once the
\* GET before it was answered in full.  The handler tests that the file
\* exists and returns FileResponse(file_path), which holds the path and
\* none of the file's bytes, or answers 404 when there is no such file.
\* at_check records what the path held at the test, which the handler does
\* not read.
MainGetModel ==
  /\ IF main_get = None THEN TRUE ELSE main_get.sent
  /\ \E r \in 1..Len(main_reqs) :
       /\ main_reqs[r].model_url # None
       /\ LET filename == main_reqs[r].model_url[3]
          IN  main_get' =
                IF filename \in DOMAIN generated_models
                THEN [status |-> "200", url |-> main_reqs[r].model_url,
                      sent |-> FALSE, stat |-> None, served |-> None,
                      at_check |-> generated_models[filename]]
                ELSE [status |-> "404", url |-> main_reqs[r].model_url,
                      sent |-> TRUE, stat |-> None, served |-> None,
                      at_check |-> None]
  /\ UNCHANGED <<main_reqs, generated_models, health, url_vars,
                 cuda_available, cache_vars, fs, running, opt_vars, gen_vars,
                 seg_vars>>

\* main.py lines 122-126: the FileResponse is sent after the handler has
\* returned to the event loop.  First the file of the path is stat'ed, which
\* gives the Content-Length of the response headers; the response then
\* yields to the event loop before it opens the file.
MainSendStart ==
  /\ main_get # None
  /\ ~main_get.sent
  /\ main_get.stat = None
  /\ main_get' = [main_get EXCEPT
                    !.stat = generated_models[main_get.url[3]]]
  /\ UNCHANGED <<main_reqs, generated_models, health, url_vars,
                 cuda_available, cache_vars, fs, running, opt_vars, gen_vars,
                 seg_vars>>

\* The Content-Length header of a response whose headers were sent.
ContentLength(response) == FileLength(response.stat)

\* main.py lines 122-126, after the headers: the file is opened and read,
\* and the body is what the file of that path holds then, after any step
\* the executor threads took since the handler's test and since the stat.
MainSendBody ==
  /\ main_get # None
  /\ ~main_get.sent
  /\ main_get.stat # None
  /\ main_get' = [main_get EXCEPT
                    !.sent = TRUE,
                    !.served = generated_models[main_get.url[3]]]
  /\ UNCHANGED <<main_reqs, generated_models, health, url_vars,
                 cuda_available, cache_vars, fs, running, opt_vars, gen_vars,
                 seg_vars>>

(***************************************************************************)
(* segment.py: the segmentation session                                    *)
(* app.py: /load_3d_model, /clear_3d_prompts, /get_pointcloud,             *)
(*         /segment_3d_model                                               *)
(***************************************************************************)

\* Distinct outcomes of the random surface sampling of one mesh.
NumSamples == 2

\* Prompts accumulated in one session between two clears.
MaxPrompts == 2

\* segment.py line 259: a segment of at most this many points is rejected.
MinSegmentPoints == 10

\* Whether a file name of a results folder matches "*.glb": the names the
\* stages write, and the uploads saved under the suffix of their own name.
IsGlbName(name) ==
  \E stem \in {"model", "sample_00", "sample_optimized"}
                \cup {"input_" \o ToString(i - 1) : i \in 1..MaxUploads} :
    name = stem \o ".glb"

\* Lines 127-139: the GLB files load_model_for_segmentation may pick: the
\* canonical names in order, else any *.glb of the folder (glob order).
FindGlb(files, model_dir) ==
  IF FileExists(files, model_dir, "model.glb") THEN {"model.glb"}
  ELSE IF FileExists(files, model_dir, "sample_00.glb") THEN {"sample_00.glb"}
  ELSE IF FolderExists(files, model_dir)
  THEN {name \in files[model_dir] : IsGlbName(name)}
  ELSE {}

\* load_glb_for_point_sam: the k-th sampling of a mesh, with the shift
\* (centroid) and scale (largest radius) of the sampled points.
SampledCloud(glb_path, k) ==
  [pc_xyz |-> [glb |-> glb_path, sample |-> k, channel |-> "xyz"],
   pc_rgb |-> [glb |-> glb_path, sample |-> k, channel |-> "rgb"],
   shift |-> k - 1,
   scale |-> k]

\* A load that carries the prompts and the mask over to the new session.
NewSessionKeepsPrompts(model_dir, glb_path, k) ==
  SampledCloud(glb_path, k) @@
  [model_id |-> model_dir, glb_path |-> glb_path,
   prompts |-> IF current_ply_data = None THEN <<>> ELSE current_ply_data.prompts,
   labels |-> IF current_ply_data = None THEN <<>> ELSE current_ply_data.labels,
   prompt_mask |-> IF current_ply_data = None THEN None
                   ELSE current_ply_data.prompt_mask]

\* A load that empties the prompts and the labels but carries the mask over.
NewSessionKeepsMask(model_dir, glb_path, k) ==
  SampledCloud(glb_path, k) @@
  [model_id |-> model_dir, glb_path |-> glb_path,
   prompts |-> <<>>, labels |-> <<>>,
   prompt_mask |-> IF current_ply_data = None THEN None
                   ELSE current_ply_data.prompt_mask]

\* Lines 152-162: the session stored by a successful load.
NewSession(model_dir, glb_path, k) ==
  SampledCloud(glb_path, k) @@
  [model_id |-> model_dir, glb_path |-> glb_path,
   prompts |-> <<>>, labels |-> <<>>, prompt_mask |-> None]

\* A failing load that discards the session.
SessionAfterFailedLoadUnloads(session) == None

\* A failing load that resets the prompts, the labels and the mask.
SessionAfterFailedLoadResets(session) ==
  IF session = None THEN None
  ELSE [session EXCEPT !.prompts = <<>>, !.labels = <<>>,
                       !.prompt_mask = None]

\* The session after a load that fails: every failure returns or raises
\* before line 152 assigns current_ply_data.
SessionAfterFailedLoad(session) == session

\* The outcome record of a segmentation request that leaves `after` as the
\* session: the response, and what the request did to the session.
SegOut(op, status, error, after, extra) ==
  [op |-> op, status |-> status, error |-> error,
   was_loaded |-> current_ply_data # None,
   session_unchanged |-> after = current_ply_data,
   mask_unchanged |->
     IF current_ply_data = None \/ after = None THEN after = current_ply_data
     ELSE after.prompt_mask = current_ply_data.prompt_mask,
   history_unchanged |->
     IF current_ply_data = None \/ after = None THEN after = current_ply_data
     ELSE /\ after.prompts = current_ply_data.prompts
          /\ after.labels = current_ply_data.labels,
   had_prompts |-> IF current_ply_data = None THEN 0
                   ELSE Len(current_ply_data.prompts),
   had_mask |-> IF current_ply_data = None THEN FALSE
                ELSE current_ply_data.prompt_mask # None]
  @@ extra

NoExtra == [predicted |-> FALSE]

\* A segmentation request ends: its outcome is recorded and `after` is the
\* session it leaves.
SegDone(op, status, error, after, extra) ==
  /\ seg_out' = SegOut(op, status, error, after, extra)
  /\ current_ply_data' = after

\* An answer of 500 to every request made without a session.
NoSessionAnswerAlways500(op) ==
  [status |-> "500", error |-> "No 3D model loaded"]

\* The answer to a request made while no session is loaded: app.py lines
\* 392-396 (clear), segment.py lines 179-180 with app.py lines 405-409
\* (query), segment.py lines 212-213 with app.py lines 423-428 (click).
NoSessionAnswer(op) ==
  [status |-> IF op = "click" THEN "500" ELSE "400",
   error |-> "No 3D model loaded"]

\* A flag check that lets every request through.
UnavailableNever == FALSE

\* app.py lines 352 and 416, segment.py lines 123 and 209: the availability
\* flag is checked before anything else.
Unavailable == ~POINT_SAM_AVAILABLE

\* POST /load_3d_model with load_model_for_segmentation.
\* load_ok: load_glb_for_point_sam returned a cloud; cuda_ok: the tensors
\* were moved to the device.
LoadModel ==
  /\ LoopFree
  /\ \E model_id \in GenIds :
       LET req == [model_id |-> model_id, predicted |-> FALSE]
       IN
       IF Unavailable
       THEN SegDone("load", "503", "Point-SAM not available",
                    current_ply_data, req)
       ELSE IF ~FolderExists(fs, model_id)
       THEN SegDone("load", "200", "Model not found",
                    SessionAfterFailedLoad(current_ply_data), req)
       ELSE IF FindGlb(fs, model_id) = {}
       THEN SegDone("load", "200", "GLB file not found",
                    SessionAfterFailedLoad(current_ply_data), req)
       ELSE \E name \in FindGlb(fs, model_id), load_ok \in BOOLEAN :
              IF ~load_ok
              THEN SegDone("load", "200", "Failed to load GLB data",
                           SessionAfterFailedLoad(current_ply_data), req)
              ELSE \E cuda_ok \in BOOLEAN, k \in 1..NumSamples :
                IF ~cuda_ok
                THEN SegDone("load", "500", "exception",
                             SessionAfterFailedLoad(current_ply_data), req)
                ELSE SegDone("load", "200", "",
                             NewSession(model_id, <<model_id, name>>, k),
                             req @@ [sample |-> k,
                                     glb_path |-> <<model_id, name>>])
  /\ UNCHANGED <<srv_vars, url_vars, cuda_available, cache_vars, opt_vars, gen_vars, fs,
                 running, POINT_SAM_AVAILABLE>>

\* A clear_prompts that forgets to reset the mask.
ClearedSessionKeepsMask(session) ==
  [session EXCEPT !.prompts = <<>>, !.labels = <<>>]

\* clear_prompts
ClearedSession(session) ==
  [session EXCEPT !.prompts = <<>>, !.labels = <<>>, !.prompt_mask = None]

\* POST /clear_3d_prompts
ClearPrompts ==
  /\ LoopFree
  /\ IF current_ply_data = None
     THEN SegDone("clear", NoSessionAnswer("clear").status,
                  NoSessionAnswer("clear").error, current_ply_data, NoExtra)
     ELSE SegDone("clear", "200", "", ClearedSession(current_ply_data), NoExtra)
  /\ UNCHANGED <<srv_vars, url_vars, cuda_available, cache_vars, opt_vars, gen_vars, fs,
                 running, POINT_SAM_AVAILABLE>>

\* get_pointcloud_data: the denormalized cloud pc_xyz * scale + shift.
PointcloudData(session) ==
  [xyz |-> [cloud |-> session.pc_xyz, times |-> session.scale,
            plus |-> session.shift],
   rgb |-> session.pc_rgb,
   num_points |-> [rows_of |-> session.pc_xyz],
   model_id |-> session.model_id]

\* The texts str(e) of the exceptions tried: an ordinary message, an empty
\* one (MemoryError() and the like), and one that contains "too small".
ExcMessages == {"exception", "", "too small"}

\* app.py line 424: `"too small" in error`, over the error texts of the model.
MentionsTooSmall(error) == error \in {"Segment too small", "too small"}

\* The answer when segment_with_click or get_pointcloud_data returned
\* (None, error) from its except branch.  The handlers test `if error:`
\* (app.py 406, 423): an empty text passes for no error, `**None` raises
\* TypeError in the handler and the server answers 500.  Otherwise a query
\* is answered 400 (407-410) and a click 400 or 500 (424-428).
CaughtAnswer(op, error) ==
  IF error = "" THEN [status |-> "500", error |-> "unhandled TypeError"]
  ELSE [status |-> IF op = "query" \/ MentionsTooSmall(error)
                   THEN "400" ELSE "500",
        error |-> error]

\* GET /get_pointcloud.  copied: the tensors were copied to the host.
GetPointcloud ==
  /\ LoopFree
  /\ IF current_ply_data = None
     THEN SegDone("query", NoSessionAnswer("query").status,
                  NoSessionAnswer("query").error, current_ply_data, NoExtra)
     ELSE \E copied \in BOOLEAN :
            IF ~copied
            THEN \E msg \in ExcMessages :
                   SegDone("query", CaughtAnswer("query", msg).status,
                           CaughtAnswer("query", msg).error,
                           current_ply_data, NoExtra)
            ELSE SegDone("query", "200", "", current_ply_data,
                         [predicted |-> FALSE,
                          data |-> PointcloudData(current_ply_data)])
  /\ UNCHANGED <<srv_vars, url_vars, cuda_available, cache_vars, opt_vars, gen_vars, fs,
                 running, POINT_SAM_AVAILABLE>>

\* Click positions tried: none given, a malformed one, or a coordinate.
ClickPositions ==
  {[kind |-> "absent"], [kind |-> "malformed"], [kind |-> "point", x |-> 1]}

PromptLabels == {0, 1}

\* Lines 226-232: the prompt point in normalized coordinates,
\* (click - shift) / scale as a fraction, or the cloud's centroid.
PromptPoint(session, pos) ==
  IF pos.kind = "absent" THEN [centroid_of |-> session.pc_xyz]
  ELSE [num |-> pos.x - session.shift, den |-> session.scale]

\* A click that replaces the history by its own prompt.
WithPromptReplacing(session, point, label) ==
  [session EXCEPT !.prompts = <<point>>, !.labels = <<label>>]

\* A click that appends its prompt without the label.
WithPromptDropsLabel(session, point, label) ==
  [session EXCEPT !.prompts = Append(@, point)]

\* Lines 235-236: the prompt and its label are appended to the history.
WithPrompt(session, point, label) ==
  [session EXCEPT !.prompts = Append(@, point), !.labels = Append(@, label)]

\* A candidate mask of the network: how many points it selects, and its
\* predicted quality.
MaskSizes == (MinSegmentPoints - 1)..(MinSegmentPoints + 2)

\* The network's answers tried: two candidates, the second of a quality
\* equal to or higher than the first's.
NetOutputs ==
  { <<[points |-> a, iou |-> 1], [points |-> b, iou |-> q]>> :
      a \in MaskSizes, b \in MaskSizes, q \in {1, 2} }

\* Line 251: torch.argmax, the first candidate of the highest quality.
BestIdx(cands) ==
  CHOOSE i \in 1..Len(cands) :
    /\ \A j \in 1..Len(cands) : cands[j].iou <= cands[i].iou
    /\ \A j \in 1..(i - 1) : cands[j].iou < cands[i].iou

\* Line 252: the mask stored as the next prediction's seed.
StoredMask(cands) == [points |-> cands[BestIdx(cands)].points]

\* Line 259
TooSmall(mask) == mask.points <= MinSegmentPoints

\* A prediction that renormalizes the stored cloud in place.
SessionAfterPredictionRescales(appended, mask) ==
  [appended EXCEPT !.prompt_mask = mask, !.shift = 0, !.scale = 1]

\* Line 252: the best mask is stored before its size is examined.
SessionAfterPrediction(appended, mask) == [appended EXCEPT !.prompt_mask = mask]

\* Where a click with a usable position ends: an exception in the tensor
\* conversion of lines 239-240, in predict_masks (243-248), in the
\* statements after line 252, or none.
ClickStages == {"tensors", "predict", "tail", "return"}

\* POST /segment_3d_model with segment_with_click.
\* stage: where the click ends; mask: the mask stored for one of the answers
\* of predict_masks.  An
\* exception after line 252 (at 254 or 257, or at 263-264 for a mask that is
\* not too small) finds the new mask stored already.
SegmentWithClick ==
  /\ LoopFree
  /\ IF current_ply_data = None THEN TRUE
     ELSE Len(current_ply_data.prompts) < MaxPrompts
  /\ IF Unavailable
     THEN SegDone("click", "503", "Point-SAM not available",
                  current_ply_data, NoExtra)
     ELSE IF current_ply_data = None
     THEN SegDone("click", NoSessionAnswer("click").status,
                  NoSessionAnswer("click").error, current_ply_data, NoExtra)
     ELSE \E pos \in ClickPositions :
       IF pos.kind = "malformed"
       THEN \E msg \in ExcMessages :
              SegDone("click", CaughtAnswer("click", msg).status,
                      CaughtAnswer("click", msg).error,
                      current_ply_data, NoExtra)
       ELSE \E prompt_label \in PromptLabels, stage \in ClickStages :
         LET appended == WithPrompt(current_ply_data,
                                    PromptPoint(current_ply_data, pos),
                                    prompt_label)
             call == [predicted |-> TRUE,
                      prompt_points |-> appended.prompts,
                      prompt_labels |-> appended.labels,
                      seed_mask |-> current_ply_data.prompt_mask,
                      first |-> current_ply_data.prompt_mask = None]
         IN  IF stage = "tensors"
             THEN \E msg \in ExcMessages :
                    SegDone("click", CaughtAnswer("click", msg).status,
                            CaughtAnswer("click", msg).error, appended, NoExtra)
             ELSE IF stage = "predict"
             THEN \E msg \in ExcMessages :
                    SegDone("click", CaughtAnswer("click", msg).status,
                            CaughtAnswer("click", msg).error, appended, call)
             ELSE \E mask \in {StoredMask(cands) : cands \in NetOutputs} :
                    LET after == SessionAfterPrediction(appended, mask)
                    IN  IF stage = "tail"
                        THEN \E msg \in ExcMessages :
                               SegDone("click",
                                       CaughtAnswer("click", msg).status,
                                       CaughtAnswer("click", msg).error,
                                       after, call)
                        ELSE IF TooSmall(mask)
                        THEN SegDone("click",
                                     CaughtAnswer("click",
                                                  "Segment too small").status,
                                     "Segment too small", after, call)
                        ELSE SegDone("click", "200", "", after,
                                     call @@ [num_points |-> mask.points,
                                              model_id |-> appended.model_id])
  /\ UNCHANGED <<srv_vars, url_vars, cuda_available, cache_vars, opt_vars, gen_vars, fs,
                 running, POINT_SAM_AVAILABLE>>

(***************************************************************************)
(* Initial states and specifications                                       *)
(***************************************************************************)

EmptyStore == [g \in {} |-> {}]

\* The state of a freshly started backend with an empty results folder.
Fresh ==
  /\ url_in = None
  /\ url_out = Pending
  /\ cuda_available \in BOOLEAN
  /\ text_pipeline = None
  /\ image_pipeline = None
  /\ constructed = [k \in Kinds |-> 0]
  /\ dropped = [k \in Kinds |-> 0]
  /\ last_ret = [k \in Kinds |-> 0]
  /\ cache_out = None
  /\ running = Idle
  /\ opt = None
  /\ opt_out = None
  /\ now = 0
  /\ reqs = <<>>
  /\ current_ply_data = None
  /\ seg_out = None
  /\ health = None
  /\ main_reqs = <<>>
  /\ generated_models = [f \in {} |-> None]
  /\ main_get = None

\* The pipeline cache alone, driven by direct calls.
InitCache ==
  /\ Fresh
  /\ fs = EmptyStore
  /\ POINT_SAM_AVAILABLE = FALSE

NextCache ==
  \/ CallLoadPipeline
  \/ CallClearPipelineCache

SpecCache == InitCache /\ [][NextCache]_vars

\* Results folders left by earlier generations: a complete generation; a
\* generation whose GLB export failed and that was optimized afterwards; a
\* generation that failed before anything was saved.
FullGeneration ==
  {"generated_image.png", "image.png", "sample_00.obj", "sample_00.glb",
   "sample_00.ply", "slat_00.pt"}

OptimizedWithoutGlb ==
  {"generated_image.png", "image.png", "sample_00.obj", "sample_00.ply",
   "slat_00.pt", "sample_optimized.glb", "stresses.png",
   "stresses_optimized.png"}

Stores ==
  { (<<0, 0>> :> FullGeneration) @@ (<<0, 1>> :> OptimizedWithoutGlb),
    (<<0, 0>> :> FullGeneration) @@ (<<1, 0>> :> {"generated_image.png"}) }

\* The optimization stage over results folders of earlier generations, with
\* pipelines loaded and evicted in between.
InitOpt ==
  /\ Fresh
  /\ fs \in Stores
  /\ POINT_SAM_AVAILABLE = FALSE

NextOpt ==
  \/ CallLoadPipeline
  \/ OptimizeRequest
  \/ CallOptimizeModel
  \/ OptEntry
  \/ OptClear
  \/ OptLoadSlat
  \/ OptRun
  \/ OptExport

SpecOpt == InitOpt /\ [][NextOpt]_vars

\* Direct calls of optimize_model, with and without save_slat, over the
\* results folder of one complete generation.
InitDirect ==
  /\ Fresh
  /\ fs = (<<0, 0>> :> FullGeneration)
  /\ POINT_SAM_AVAILABLE = FALSE

NextDirect ==
  \/ CallOptimizeModelSaveSlat
  \/ OptEntry
  \/ OptClear
  \/ OptLoadSlat
  \/ OptRun
  \/ OptExport

SpecDirect == InitDirect /\ [][NextDirect]_vars

\* The /generate handlers, from an empty results folder.
InitGen ==
  /\ Fresh
  /\ fs = EmptyStore
  /\ POINT_SAM_AVAILABLE = FALSE

NextGen ==
  \/ GenerateStart
  \/ JpegCheckUpload
  \/ GenResume
  \/ JpegImage
  \/ GenSample
  \/ Tick

SpecGen == InitGen /\ [][NextGen]_vars

\* Generation followed by optimization: the /generate and /optimize handlers
\* from an empty results folder.
NextPipe ==
  \/ PipeGenerateStart
  \/ JpegCheckUpload
  \/ GenResume
  \/ JpegImage
  \/ GenSample
  \/ OptimizeRequest
  \/ OptEntry
  \/ OptClear
  \/ OptLoadSlat
  \/ OptRun
  \/ OptExport

SpecPipe == InitGen /\ [][NextPipe]_vars

\* Generation followed by loads for segmentation: the /generate and
\* /load_3d_model handlers from an empty results folder.  The network
\* initializes only with CUDA (segment.py lines 36-37).
InitLoad ==
  /\ Fresh
  /\ fs = EmptyStore
  /\ POINT_SAM_AVAILABLE \in {FALSE} \cup (IF cuda_available THEN {TRUE} ELSE {})

NextLoad ==
  \/ PipeGenerateStart
  \/ GenCheckUpload
  \/ GenResume
  \/ GenImage
  \/ GenSample
  \/ LoadModel

SpecLoad == InitLoad /\ [][NextLoad]_vars

\* A complete generation that was optimized afterwards.
OptimizedGeneration ==
  FullGeneration \cup
    {"sample_optimized.glb", "stresses.png", "stresses_optimized.png"}

\* A backend on a CUDA host whose results folder holds one earlier
\* generation, optimized already.
InitServe ==
  /\ Fresh
  /\ cuda_available
  /\ fs = (<<0, 0>> :> OptimizedGeneration)
  /\ POINT_SAM_AVAILABLE = FALSE

\* Concurrent requests to /generate and /optimize.
NextServe ==
  \/ PipeGenerateStart
  \/ JpegCheckUpload
  \/ GenResume
  \/ JpegImage
  \/ GenSample
  \/ OptimizeRequest
  \/ OptEntry
  \/ OptClear
  \/ OptLoadSlat
  \/ OptRun
  \/ OptExport

SpecServe == InitServe /\ [][NextServe]_vars

\* Requests to /health while /generate and /optimize are served.
NextHealth ==
  \/ NextServe
  \/ HealthArrive
  \/ HealthAnswer

SpecHealth == InitServe /\ [][NextHealth]_vars

\* The standalone generator service.
NextMain ==
  \/ MainGenerateArrive
  \/ MainGenerateResume
  \/ MainExecutorOpen
  \/ MainExecutorWrite
  \/ MainGenerateRespond
  \/ MainGetModel
  \/ MainSendStart
  \/ MainSendBody

\* The service after start: generated_models/ exists and is empty.  The
\* backend's state plays no part.
InitMain ==
  /\ Fresh
  /\ ~cuda_available
  /\ fs = EmptyStore
  /\ POINT_SAM_AVAILABLE = FALSE

SpecMain == InitMain /\ [][NextMain]_vars

\* get_relative_url on every argument of UrlInputs.
InitUrl ==
  /\ url_in \in UrlInputs
  /\ url_out = Pending
  /\ cuda_available = FALSE
  /\ text_pipeline = None
  /\ image_pipeline = None
  /\ constructed = [k \in Kinds |-> 0]
  /\ dropped = [k \in Kinds |-> 0]
  /\ last_ret = [k \in Kinds |-> 0]
  /\ cache_out = None
  /\ running = Idle
  /\ opt = None
  /\ opt_out = None
  /\ now = 0
  /\ reqs = <<>>
  /\ current_ply_data = None
  /\ seg_out = None
  /\ health = None
  /\ main_reqs = <<>>
  /\ generated_models = [f \in {} |-> None]
  /\ main_get = None
  /\ fs = EmptyStore
  /\ POINT_SAM_AVAILABLE = FALSE

NextUrl == CallGetRelativeUrl

SpecUrl == InitUrl /\ [][NextUrl]_vars

\* The segmentation session over results folders of earlier generations.
\* The network initializes only with CUDA (segment.py lines 36-37).
InitSeg ==
  /\ Fresh
  /\ fs \in Stores
  /\ POINT_SAM_AVAILABLE \in {FALSE} \cup (IF cuda_available THEN {TRUE} ELSE {})

NextSeg ==
  \/ LoadModel
  \/ ClearPrompts
  \/ GetPointcloud
  \/ SegmentWithClick

SpecSeg == InitSeg /\ [][NextSeg]_vars

(***************************************************************************)
(* Properties                                                              *)
(***************************************************************************)

\* C1: a click whose best mask selects 10 or fewer points is rejected with
\* the "too small" error and leaves prompt_mask as it was before the click.
RejectedClickKeepsMask ==
  (seg_out # None /\ seg_out.op = "click"
                  /\ seg_out.error = "Segment too small")
    => seg_out.status = "400" /\ seg_out.mask_unchanged

\* C2: a click rejected as too small leaves the session unmodified: the
\* prompts and labels after it are the prompts and labels before it.
RejectedClickKeepsHistory ==
  (seg_out # None /\ seg_out.op = "click"
                  /\ seg_out.error = "Segment too small")
    => seg_out.history_unchanged

\* C3 as stated: whenever optimize_model is past its memory clearing (about
\* to load the bundle, optimizing or exporting), neither pipeline slot holds
\* an instance, with or without CUDA.
EvictionBeforeOptimization ==
  (opt # None /\ opt.pc \in {"load_slat", "run", "export"})
    => text_pipeline = None /\ image_pipeline = None

\* C3 amended: with CUDA available, whenever optimize_model is past its
\* memory clearing, neither pipeline slot holds an instance, whatever
\* happened inside the eviction.
EvictionBeforeOptimizationWithCuda ==
  (cuda_available /\ opt # None /\ opt.pc \in {"load_slat", "run", "export"})
    => text_pipeline = None /\ image_pipeline = None

\* A run with CUDA that started with a cached pipeline is about to load the
\* bundle, after an eviction whose cpu() move and cache sweep both failed.
EvictionBeforeOptimizationReached ==
  /\ cuda_available
  /\ opt # None
  /\ opt.pc = "load_slat"
  /\ opt.cache0 # <<None, None>>
  /\ cache_out # None
  /\ cache_out.op = "clear"
  /\ cache_out.moved = {}
  /\ cache_out.raised

\* C4: optimizing a folder without slat_00.pt ends with the precondition
\* error (HTTP 400 from the endpoint, FileNotFoundError from optimize_model)
\* before memory clearing, eviction, bundle loading and optimizer
\* construction, and leaves the folder and the pipeline cache unchanged.
MissingSlatFailsFast ==
  /\ (opt # None /\ ~opt.had_slat) => opt.pc = "entry"
  /\ (opt_out # None /\ ~opt_out.had_slat
        /\ (opt_out.had_folder \/ opt_out.caller = "direct"))
       => /\ opt_out.status = IF opt_out.caller = "endpoint" THEN "400"
                              ELSE "FileNotFoundError"
          /\ ~opt_out.cleared
          /\ ~opt_out.loaded
          /\ ~opt_out.factory
          /\ ~opt_out.changed

\* The endpoint answered 400 for an existing folder without slat_00.pt while
\* a pipeline was cached.
MissingSlatRejected ==
  /\ opt_out # None
  /\ opt_out.caller = "endpoint"
  /\ opt_out.had_folder
  /\ ~opt_out.had_slat
  /\ opt_out.status = "400"
  /\ image_pipeline # None

\* C5: per kind, the instances constructed and not yet dropped are one when
\* the slot is filled and none when it is empty; an acquire constructs only
\* on an empty slot and always on an empty slot unless it raises; an
\* acquire returns the instance returned by the previous acquire of that
\* kind since the latest release_all.
CacheSingletonPerKind ==
  /\ \A k \in Kinds :
       constructed[k] - dropped[k] = IF Slot(k) = None THEN 0 ELSE 1
  /\ (cache_out # None /\ cache_out.op = "load")
       => /\ cache_out.built => ~cache_out.was_cached
          /\ (~cache_out.was_cached /\ ~cache_out.raised) => cache_out.built
          /\ cache_out.was_cached => ~cache_out.raised
          /\ (~cache_out.raised /\ cache_out.prev_ret # 0)
               => cache_out.ret = cache_out.prev_ret

\* After a release_all and a fresh construction, an acquire found the slot
\* filled and returned the instance the previous acquire returned.
CachedAcquireReached ==
  /\ cache_out # None
  /\ cache_out.op = "load"
  /\ cache_out.was_cached
  /\ cache_out.prev_ret # 0
  /\ cache_out.ret = cache_out.prev_ret
  /\ dropped[cache_out.kind] > 0

\* C6 as stated: after clear_pipeline_cache no kind is cached, with or
\* without CUDA.
ReleaseAllEmptiesCache ==
  (cache_out # None /\ cache_out.op = "clear")
    => \A k \in Kinds : Slot(k) = None /\ dropped[k] = constructed[k]

\* C6 amended: with CUDA available, after clear_pipeline_cache no kind is
\* cached and every instance constructed so far has been dropped, so the
\* next acquire constructs.
ReleaseAllEmptiesCacheWithCuda ==
  (cuda_available /\ cache_out # None /\ cache_out.op = "clear")
    => \A k \in Kinds : Slot(k) = None /\ dropped[k] = constructed[k]

\* With CUDA, a release_all moved both cached pipelines off the device.
ReleaseAllOfBothReached ==
  /\ cuda_available
  /\ cache_out # None
  /\ cache_out.op = "clear"
  /\ cache_out.moved = Kinds

\* C7: the requests that passed text validation hold pairwise distinct
\* generation ids; each id is the request's timestamp with the smallest
\* suffix whose folder did not exist, and its folder exists from the
\* handler's first step on.
GenerationIdsDistinct ==
  /\ \A r1 \in 1..Len(reqs), r2 \in 1..Len(reqs) :
       (r1 # r2 /\ reqs[r1].generation_id # NoId
                /\ reqs[r2].generation_id # NoId)
         => reqs[r1].generation_id # reqs[r2].generation_id
  /\ \A r \in 1..Len(reqs) :
       reqs[r].generation_id # NoId
         => /\ FolderExists(fs, reqs[r].generation_id)
            /\ reqs[r].generation_id[1] = reqs[r].base_id
            /\ \A j \in 0..(reqs[r].generation_id[2] - 1) :
                 FolderExists(fs, <<reqs[r].base_id, j>>)

\* A second request started in the same second while the first handler was
\* awaiting an upload, and got the suffix _1.
InterleavedSameSecondReached ==
  /\ Len(reqs) >= 2
  /\ reqs[1].pc = "await_read"
  /\ reqs[2].base_id = reqs[1].base_id
  /\ reqs[1].generation_id = <<reqs[1].base_id, 0>>
  /\ reqs[2].generation_id = <<reqs[1].base_id, 1>>

\* C8: get_relative_url maps None and "" to None, every path ending in
\* models/<folder>/<filename> to /files/<folder>/<filename>, and every path
\* neither under FILES_DIR nor with a "models" component to None.
UrlOfModelsFolderFile ==
  url_out # Pending =>
    IF url_in = None THEN url_out = None
    ELSE IF url_in.raw = <<>> THEN url_out = None
    ELSE LET parts == PathParts(url_in.raw)
             n == Len(parts)
         IN  /\ (n >= 3 /\ parts[n - 2] = "models")
                  => url_out = [url |-> <<"files", parts[n - 1], parts[n]>>]
             /\ (/\ ~IsPrefixOf(FILES_DIR, parts)
                 /\ \A i \in 1..n : parts[i] # "models")
                  => url_out = None

\* C9: after a successful load the session is that of the requested model
\* alone: its model_id, a GLB of its folder, the cloud, shift and scale just
\* sampled from that GLB, no prompts, no labels and no prompt_mask.
SuccessfulLoadReplacesSession ==
  (seg_out # None /\ seg_out.op = "load" /\ seg_out.error = "")
    => /\ current_ply_data # None
       /\ current_ply_data.model_id = seg_out.model_id
       /\ current_ply_data.glb_path = seg_out.glb_path
       /\ current_ply_data.glb_path[1] = seg_out.model_id
       /\ current_ply_data.pc_xyz =
            SampledCloud(seg_out.glb_path, seg_out.sample).pc_xyz
       /\ current_ply_data.pc_rgb =
            SampledCloud(seg_out.glb_path, seg_out.sample).pc_rgb
       /\ current_ply_data.shift =
            SampledCloud(seg_out.glb_path, seg_out.sample).shift
       /\ current_ply_data.scale =
            SampledCloud(seg_out.glb_path, seg_out.sample).scale
       /\ current_ply_data.prompts = <<>>
       /\ current_ply_data.labels = <<>>
       /\ current_ply_data.prompt_mask = None

\* A load succeeded over a session that held prompts and a prompt_mask.
LoadOverLabeledSessionReached ==
  /\ seg_out # None
  /\ seg_out.op = "load"
  /\ seg_out.error = ""
  /\ seg_out.was_loaded
  /\ seg_out.had_prompts > 0
  /\ seg_out.had_mask

\* C10: no request takes a loaded session back to no session.
LoadedNeverEmpty ==
  [][current_ply_data # None => current_ply_data' # None]_vars

\* A load failed on a loaded session that held prompts.
FailedLoadOnLoadedReached ==
  /\ seg_out # None
  /\ seg_out.op = "load"
  /\ seg_out.error # ""
  /\ seg_out.was_loaded
  /\ seg_out.had_prompts > 0
  /\ current_ply_data # None

\* C11: a click that reaches the network appends one (point, label) pair to
\* the end of the history, leaving the earlier pairs in place, and calls the
\* network with the whole history in click order, the mask stored before
\* the click as the seed, and the first-prediction flag set exactly when no
\* mask was stored; a click that does not reach the network (its position is
\* malformed, or the conversion of the history to tensors raises) leaves the
\* history as it was or with its own pair appended at the end.
ClicksCumulative ==
  [][(seg_out' # None /\ seg_out'.op = "click" /\ current_ply_data # None)
       => LET k == Len(current_ply_data.prompts) + 1
              appended ==
                /\ Len(current_ply_data'.prompts) = k
                /\ Len(current_ply_data'.labels) = k
                /\ SubSeq(current_ply_data'.prompts, 1, k - 1)
                     = current_ply_data.prompts
                /\ SubSeq(current_ply_data'.labels, 1, k - 1)
                     = current_ply_data.labels
          IN  IF seg_out'.predicted
              THEN /\ appended
                   /\ seg_out'.prompt_points = current_ply_data'.prompts
                   /\ seg_out'.prompt_labels = current_ply_data'.labels
                   /\ seg_out'.seed_mask = current_ply_data.prompt_mask
                   /\ seg_out'.first = (current_ply_data.prompt_mask = None)
              ELSE \/ appended
                   \/ /\ current_ply_data'.prompts = current_ply_data.prompts
                      /\ current_ply_data'.labels = current_ply_data.labels]_vars

\* A second click, of the other label, was predicted from both prompts and
\* the mask of the first.
SecondClickReached ==
  /\ seg_out # None
  /\ seg_out.op = "click"
  /\ seg_out.predicted
  /\ Len(seg_out.prompt_points) = 2
  /\ seg_out.prompt_labels[1] # seg_out.prompt_labels[2]
  /\ seg_out.seed_mask # None
  /\ ~seg_out.first

\* C12: clear on a loaded session empties prompts and labels, removes
\* prompt_mask and leaves the cloud, colors, shift, scale, model_id and
\* glb_path; the click after a clear is predicted from its own prompt alone,
\* without a seed, as a first prediction.
ClearResetsPromptsOnly ==
  [][/\ (seg_out' # None /\ seg_out'.op = "clear" /\ current_ply_data # None)
          => /\ seg_out'.status = "200"
             /\ current_ply_data'.prompts = <<>>
             /\ current_ply_data'.labels = <<>>
             /\ current_ply_data'.prompt_mask = None
             /\ current_ply_data'.pc_xyz = current_ply_data.pc_xyz
             /\ current_ply_data'.pc_rgb = current_ply_data.pc_rgb
             /\ current_ply_data'.shift = current_ply_data.shift
             /\ current_ply_data'.scale = current_ply_data.scale
             /\ current_ply_data'.model_id = current_ply_data.model_id
             /\ current_ply_data'.glb_path = current_ply_data.glb_path
             /\ DOMAIN current_ply_data' = DOMAIN current_ply_data
     /\ (/\ seg_out # None /\ seg_out.op = "clear" /\ seg_out.status = "200"
         /\ seg_out' # None /\ seg_out'.op = "click" /\ seg_out'.predicted)
          => /\ Len(seg_out'.prompt_points) = 1
             /\ seg_out'.seed_mask = None
             /\ seg_out'.first]_vars

\* A session holding prompts and a mask was cleared.
ClearOfLabeledSessionReached ==
  /\ seg_out # None
  /\ seg_out.op = "clear"
  /\ seg_out.status = "200"
  /\ seg_out.had_prompts > 0
  /\ seg_out.had_mask
  /\ current_ply_data.prompts = <<>>

\* C13: clicks, clears and queries leave what a query returns (points,
\* colors, point count, model_id) as it was, and a query returns the
\* denormalized cloud of the session.
QueryUnchangedByClicksAndClear ==
  [][(/\ seg_out' # None
      /\ seg_out'.op \in {"click", "clear", "query"}
      /\ current_ply_data # None)
       => /\ PointcloudData(current_ply_data') = PointcloudData(current_ply_data)
          /\ (seg_out'.op = "query" /\ seg_out'.status = "200")
               => seg_out'.data = PointcloudData(current_ply_data)]_vars

\* A query answered after clicks had left prompts and a mask.
QueryAfterClicksReached ==
  /\ seg_out # None
  /\ seg_out.op = "query"
  /\ seg_out.status = "200"
  /\ seg_out.had_prompts > 0
  /\ seg_out.had_mask

\* C20: while the network is unavailable there is no session, load and click
\* are answered 503 without a prediction and without touching the session,
\* and clear and query are answered 400.
UnavailableAnswers503 ==
  ~POINT_SAM_AVAILABLE
    => /\ current_ply_data = None
       /\ seg_out # None
            => /\ seg_out.op \in {"load", "click"}
                 => /\ seg_out.status = "503"
                    /\ ~seg_out.predicted
                    /\ seg_out.session_unchanged
               /\ seg_out.op \in {"clear", "query"} => seg_out.status = "400"

\* A load was answered 503 for an existing folder that holds a GLB.
UnavailableLoadReached ==
  /\ ~POINT_SAM_AVAILABLE
  /\ seg_out # None
  /\ seg_out.op = "load"
  /\ seg_out.status = "503"
  /\ FindGlb(fs, seg_out.model_id) # {}

\* C14: POST /optimize answers 404 exactly for an absent folder, 400 exactly
\* for a folder without slat_00.pt, and 200 or 500 otherwise; optimize_model
\* runs for the endpoint only on a folder that holds slat_00.pt.
OptimizeStatusByPrecondition ==
  /\ (opt # None /\ opt.caller = "endpoint")
       => opt.had_folder /\ opt.had_slat
  /\ (opt_out # None /\ opt_out.caller = "endpoint")
       => /\ opt_out.status = "404" <=> ~opt_out.had_folder
          /\ opt_out.status = "400" <=> (opt_out.had_folder /\ ~opt_out.had_slat)
          /\ opt_out.status \in {"404", "400", "200", "500"}
          /\ opt_out.status \in {"404", "400"} <=> opt_out.outcome = "rejected"

\* After a request for an absent folder was answered 404, a request for a
\* folder with slat_00.pt has optimize_model running.
NotFoundThenRunReached ==
  /\ opt_out # None
  /\ opt_out.caller = "endpoint"
  /\ opt_out.status = "404"
  /\ opt # None
  /\ opt.caller = "endpoint"
  /\ opt.pc = "run"

\* C16: a 200 response of POST /optimize carries the URLs of the optimized
\* GLB and of both stress images, and optimize_model returns success only
\* after its run wrote all three files.
OptimizeSuccessCarriesAllUrls ==
  opt_out # None
    => /\ opt_out.outcome = "returned_success" => opt_out.written = 3
       /\ opt_out.status = "200"
            => /\ opt_out.outcome = "returned_success"
               /\ opt_out.optimized_model_url # None
               /\ opt_out.optimized_model_url.url[1] = "files"
               /\ opt_out.optimized_model_url.url[3] = "sample_optimized.glb"
               /\ opt_out.stresses_url # None
               /\ opt_out.stresses_url.url[3] = "stresses.png"
               /\ opt_out.stresses_optimized_url # None
               /\ opt_out.stresses_optimized_url.url[3] = "stresses_optimized.png"
               /\ opt_out.stresses_url.url[2] = opt_out.optimized_model_url.url[2]
               /\ opt_out.stresses_optimized_url.url[2]
                    = opt_out.optimized_model_url.url[2]

\* The endpoint answered 200 for a folder into which the run wrote its three
\* files.
OptimizeSucceededReached ==
  /\ opt_out # None
  /\ opt_out.caller = "endpoint"
  /\ opt_out.status = "200"
  /\ opt_out.changed
  /\ opt_out.written = 3

\* C18: once the slat precondition holds, optimize_model ends by returning a
\* result, {success: true} or {success: false, error}, whatever step fails,
\* and the endpoint answers a failure with 500.
OptimizeNeverRaises ==
  (opt_out # None /\ opt_out.had_slat)
    => /\ opt_out.outcome \in {"returned_success", "returned_failure"}
       /\ (opt_out.caller = "endpoint" /\ opt_out.outcome # "returned_success")
            => opt_out.status = "500"

\* C19: a run that ends because slat_00.pt is missing or unreadable does not
\* end as a run whose optimizer raised in step 5 ends, which is
\* {success: false} from optimize_model and 500 from the endpoint.
SlatFailureDistinctFromNumerical ==
  /\ (opt_out # None /\ opt_out.cause = "numerical")
       => opt_out.status = IF opt_out.caller = "endpoint" THEN "500"
                           ELSE "returned_failure"
  /\ (opt_out # None /\ opt_out.cause \in {"missing_slat", "malformed_slat"})
       => opt_out.status # IF opt_out.caller = "endpoint" THEN "500"
                           ELSE "returned_failure"

\* C17: a generation whose sample() completed with the GLB export failed
\* (the folder holds slat_00.pt, the last file written, and no
\* sample_00.glb) is answered 200 with files.glb null, files.obj, files.ply
\* and files.slat the URLs of the three files of that folder, which exist,
\* and model_url the URL of the OBJ.
GlbFailureNonFatal ==
  \A r \in 1..Len(reqs) :
    LET g == reqs[r].generation_id
        url(name) == [url |-> <<"files", IdName(g), name>>]
    IN  (/\ reqs[r].pc = "done"
         /\ FileExists(fs, g, "slat_00.pt")
         /\ ~FileExists(fs, g, "sample_00.glb"))
        => /\ reqs[r].status = "200"
           /\ reqs[r].files.glb = None
           /\ reqs[r].files.obj = url("sample_00.obj")
           /\ reqs[r].files.ply = url("sample_00.ply")
           /\ reqs[r].files.slat = url("slat_00.pt")
           /\ reqs[r].model_url = reqs[r].files.obj
           /\ FileExists(fs, g, "sample_00.obj")
           /\ FileExists(fs, g, "sample_00.ply")

\* A request was answered 200 although its folder has no sample_00.glb.
GlbFailedGenerationReached ==
  \E r \in 1..Len(reqs) :
    /\ reqs[r].status = "200"
    /\ ~FileExists(fs, reqs[r].generation_id, "sample_00.glb")
    /\ reqs[r].files.glb = None
    /\ reqs[r].model_url # None

\* C15: the folder of every generation id that /generate answered 200 for
\* holds slat_00.pt and passes both preconditions of /optimize, in every
\* state reached by later generate and optimize requests, so that /optimize
\* answers neither 404 nor 400 for it.
GeneratedFolderOptimizable ==
  \A r \in 1..Len(reqs) :
    reqs[r].status = "200"
    => /\ FileExists(fs, reqs[r].generation_id, "slat_00.pt")
       /\ EndpointPrecondition(fs, reqs[r].generation_id) = "ok"

\* The endpoint optimized the folder of a generation answered 200.
GeneratedThenOptimizedReached ==
  /\ opt_out # None
  /\ opt_out.caller = "endpoint"
  /\ opt_out.status = "200"
  /\ Len(reqs) >= 1
  /\ reqs[1].status = "200"
  /\ opt_out.optimized_model_url.url[2] = IdName(reqs[1].generation_id)

\* C21 as stated: a query, clear or click made while no session is loaded
\* returns the error 'No 3D model loaded' (with status 400 for query and
\* clear), leaves the session absent, records no prompt and does not call
\* the network.
NoSessionRequestsSayNotLoaded ==
  (/\ seg_out # None
   /\ ~seg_out.was_loaded
   /\ seg_out.op \in {"query", "clear", "click"})
    => /\ seg_out.error = "No 3D model loaded"
       /\ seg_out.op \in {"query", "clear"} => seg_out.status = "400"
       /\ current_ply_data = None
       /\ seg_out.session_unchanged
       /\ ~seg_out.predicted

\* C21 amended: a query, clear or click made while no session is loaded
\* returns an error, leaves the session absent, records no prompt and does
\* not call the network; the error is 'No 3D model loaded', with status 400
\* for query and clear, except that a click is answered 503 'Point-SAM not
\* available' when the network was not initialized.
NoSessionRequestsFail ==
  (/\ seg_out # None
   /\ ~seg_out.was_loaded
   /\ seg_out.op \in {"query", "clear", "click"})
    => /\ seg_out.error # ""
       /\ seg_out.status # "200"
       /\ seg_out.op \in {"query", "clear"}
            => /\ seg_out.status = "400"
               /\ seg_out.error = "No 3D model loaded"
       /\ seg_out.op = "click"
            => IF POINT_SAM_AVAILABLE
               THEN seg_out.error = "No 3D model loaded"
               ELSE /\ seg_out.status = "503"
                    /\ seg_out.error = "Point-SAM not available"
       /\ current_ply_data = None
       /\ seg_out.session_unchanged
       /\ ~seg_out.predicted

\* A click was made with the network initialized and no session loaded.
ClickWithoutSessionReached ==
  /\ POINT_SAM_AVAILABLE
  /\ seg_out # None
  /\ seg_out.op = "click"
  /\ ~seg_out.was_loaded
  /\ seg_out.error = "No 3D model loaded"
  /\ current_ply_data = None

\* C29: a load that reports an error (folder missing, no GLB found, GLB
\* without usable geometry, or an exception while the cloud is moved to the
\* device) leaves the session exactly as it was: the same model_id, cloud,
\* prompts, labels and prompt_mask, or no session if there was none.
FailedLoadKeepsSession ==
  (seg_out # None /\ seg_out.op = "load" /\ seg_out.error # "")
    => /\ seg_out.session_unchanged
       /\ seg_out.mask_unchanged
       /\ seg_out.history_unchanged
       /\ seg_out.was_loaded <=> current_ply_data # None
       /\ current_ply_data # None
            => /\ Len(current_ply_data.prompts) = seg_out.had_prompts
               /\ (current_ply_data.prompt_mask # None) <=> seg_out.had_mask

\* A load of a folder without a GLB failed on a session of another model
\* that held prompts and a prompt_mask.
FailedLoadOverMaskReached ==
  /\ seg_out # None
  /\ seg_out.op = "load"
  /\ seg_out.error = "GLB file not found"
  /\ seg_out.was_loaded
  /\ seg_out.had_mask
  /\ current_ply_data # None
  /\ current_ply_data.model_id # seg_out.model_id
  /\ current_ply_data.prompt_mask # None
  /\ Len(current_ply_data.prompts) > 0

\* C22: a /generate request whose text is empty after trimming, or one of
\* whose uploads is refused as not an image, is answered 400 without a
\* call of generate_image or of generate_3d_from_image; and as long as no
\* request has reached generate_3d_from_image no pipeline has been
\* constructed or cached.
InvalidGenerateAnswered400 ==
  /\ \A r \in 1..Len(reqs) :
       (reqs[r].pc = "done" /\ (~reqs[r].text_ok \/ reqs[r].bad_upload))
         => /\ reqs[r].status = "400"
            /\ reqs[r].calls = {}
            /\ reqs[r].model_url = None
  /\ (\A r \in 1..Len(reqs) : "generate_3d_from_image" \notin reqs[r].calls)
       => /\ TotalConstructed = 0
          /\ text_pipeline = None
          /\ image_pipeline = None

\* One request was refused for its text and another for an upload, and
\* nothing was called.
BothRefusalsReached ==
  /\ Len(reqs) = 2
  /\ reqs[1].pc = "done" /\ ~reqs[1].text_ok
  /\ reqs[2].pc = "done" /\ reqs[2].text_ok /\ reqs[2].bad_upload
  /\ reqs[2].status = "400"
  /\ FolderExists(fs, reqs[2].generation_id)

\* C26: when clear_pipeline_cache is called with both pipelines cached and
\* the cpu() of one of them raises, both slots are emptied, every instance
\* constructed so far has been dropped, empty_cache is called, and the call
\* returns: it raises only when empty_cache or synchronize themselves
\* raise.
ReleaseAllBestEffort ==
  (/\ cache_out # None
   /\ cache_out.op = "clear"
   /\ cache_out.had = Kinds
   /\ cache_out.moved # Kinds
   /\ cuda_available)
    => /\ text_pipeline = None
       /\ image_pipeline = None
       /\ \A k \in Kinds : dropped[k] = constructed[k]
       /\ cache_out.sweep_called
       /\ cache_out.raised <=> ~cache_out.swept

\* clear_pipeline_cache was called with both pipelines cached, the text
\* pipeline's cpu() raised, the image pipeline was moved and the sweep
\* returned.
TextMoveFailedReached ==
  /\ cache_out # None
  /\ cache_out.op = "clear"
  /\ cache_out.had = Kinds
  /\ cache_out.moved = {"image"}
  /\ cache_out.swept
  /\ ~cache_out.raised
  /\ text_pipeline = None
  /\ image_pipeline = None

\* C27 as stated: clear_pipeline_cache called with nothing cached leaves
\* both slots empty, does not raise and calls empty_cache, with or without
\* CUDA; and a clear_pipeline_cache that follows another one changes
\* neither slot.
ReleaseAllOnEmptySweeps ==
  /\ []((cache_out # None /\ cache_out.op = "clear" /\ cache_out.had = {})
          => /\ text_pipeline = None
             /\ image_pipeline = None
             /\ cache_out.sweep_called
             /\ cache_out.swept => ~cache_out.raised)
  /\ [][(IF cache_out = None THEN FALSE
         ELSE cache_out.op = "clear" /\ cache_out'.op = "clear")
          => /\ text_pipeline' = text_pipeline
             /\ image_pipeline' = image_pipeline]_vars

\* C27 amended: clear_pipeline_cache called with nothing cached leaves both
\* slots empty and moves nothing; it calls empty_cache exactly when CUDA is
\* available, and raises only when empty_cache or synchronize raise; and a
\* clear_pipeline_cache that follows another one changes neither slot.
ReleaseAllOnEmptySweepsWithCuda ==
  /\ []((cache_out # None /\ cache_out.op = "clear" /\ cache_out.had = {})
          => /\ text_pipeline = None
             /\ image_pipeline = None
             /\ cache_out.moved = {}
             /\ cache_out.sweep_called <=> cuda_available
             /\ cache_out.raised <=> (cuda_available /\ ~cache_out.swept))
  /\ [][(IF cache_out = None THEN FALSE
         ELSE cache_out.op = "clear" /\ cache_out'.op = "clear")
          => /\ text_pipeline' = text_pipeline
             /\ image_pipeline' = image_pipeline
             /\ dropped' = dropped]_vars

\* With CUDA, a clear_pipeline_cache found nothing cached after an earlier
\* one had dropped a pipeline, and swept.
SecondReleaseAllReached ==
  /\ cuda_available
  /\ cache_out # None
  /\ cache_out.op = "clear"
  /\ cache_out.had = {}
  /\ cache_out.swept
  /\ \E k \in Kinds : dropped[k] > 0

\* C28: every result of get_relative_url other than None is
\* /files/<folder>/<filename>, with exactly two segments after /files, the
\* two components that follow the models root (FILES_DIR, or else the first
\* "models" component) in the argument; and an argument with fewer than two
\* components after the models root gives None.
UrlHasFolderAndFilename ==
  (url_out # Pending /\ url_in # None)
    => LET parts == PathParts(url_in.raw)
           root == IF IsPrefixOf(FILES_DIR, parts) THEN Len(FILES_DIR)
                   ELSE IF \E i \in 1..Len(parts) : parts[i] = "models"
                   THEN IndexOf(parts, "models")
                   ELSE 0
       IN  /\ url_out # None
                => /\ root > 0
                   /\ Len(parts) >= root + 2
                   /\ url_out.url = <<"files", parts[root + 1], parts[root + 2]>>
           /\ (root > 0 /\ Len(parts) < root + 2) => url_out = None

\* C30: with the network initialized, a load answers 'not found' only for a
\* folder that holds no mesh file (no GLB and no OBJ), so that the folder of
\* every generation answered 200 can be loaded, the one whose GLB export
\* failed and that holds only sample_00.obj included.
SucceededGenerationLoadable ==
  (POINT_SAM_AVAILABLE /\ seg_out # None /\ seg_out.op = "load")
    => /\ seg_out.error = "GLB file not found"
            => \A name \in fs[seg_out.model_id] :
                 ~IsGlbName(name) /\ name # "sample_00.obj"
       /\ (\E r \in 1..Len(reqs) :
             /\ reqs[r].status = "200"
             /\ reqs[r].generation_id = seg_out.model_id)
            => seg_out.error \notin {"GLB file not found", "Model not found"}

\* C23: two heavy calls (generate_image or generate_3d_from_image of a
\* /generate request, optimize_model of an /optimize request) are never in
\* progress at the same time, and the one in progress belongs to the handler
\* that holds the event loop, so that another one starts only after it ended.
OneHeavyCallAtATime ==
  /\ Cardinality(HeavyCalls) <= 1
  /\ HeavyCalls # {} => running \in HeavyCalls

\* An optimization is in progress while a /generate request that started
\* before it waits for the bytes of its upload.
OptimizeDuringGenerateAwaitReached ==
  /\ opt # None
  /\ opt.pc = "run"
  /\ \E r \in 1..Len(reqs) : reqs[r].pc = "await_read"

\* C24: a GET /health request that arrived while a heavy call was in progress
\* is answered before that call finishes.
HealthAnsweredDuringHeavyCall ==
  (health # None /\ health.state = "answered" /\ health.during # {})
    => ~health.calls_over

\* C25: no step removes a results folder or a file of one; a step of
\* optimize_model creates no folder and adds, in the folder it was given
\* only, nothing but sample_optimized.glb, stresses.png and
\* stresses_optimized.png, which are not names of generation-stage files.
StoreOnlyGrows ==
  [][/\ \A g \in DOMAIN fs : g \in DOMAIN fs' /\ fs[g] \subseteq fs'[g]
     /\ running = <<"optimize">>
          => /\ DOMAIN fs' = DOMAIN fs
             /\ \A g \in DOMAIN fs :
                  /\ fs'[g] \ fs[g] \subseteq
                       {"sample_optimized.glb", "stresses.png",
                        "stresses_optimized.png"}
                  /\ g # opt.folder => fs'[g] = fs[g]
             /\ {ExportSteps[i] : i \in 1..Len(ExportSteps)}
                  \cap FullGeneration = {}]_vars

\* An optimization wrote its three files into the folder of a generation
\* whose GLB export had failed; the generation's files are all there and
\* sample_00.glb is still absent.
OptimizedFolderKeepsGenerationReached ==
  /\ opt_out # None
  /\ opt_out.written = 3
  /\ opt_out.changed
  /\ \E g \in DOMAIN fs :
       /\ {"sample_optimized.glb", "stresses.png", "stresses_optimized.png",
           "sample_00.obj", "sample_00.ply", "slat_00.pt"} \subseteq fs[g]
       /\ "sample_00.glb" \notin fs[g]

\* C31: with CUDA available, every cached pipeline has been placed on the
\* accelerator, and so has every pipeline a load returns.
CachedPipelinesOnAccelerator ==
  cuda_available
    => \A k \in Kinds :
         IF Slot(k) = None THEN TRUE ELSE Slot(k).device = "cuda"

\* C32: every optimize_model run that passed the slat check and returned a
\* result, success or failure, reached the release of its intermediate
\* objects and the request to reclaim accelerator memory before returning.
ReturnedRunsReleased ==
  (/\ opt_out # None
   /\ opt_out.had_slat
   /\ opt_out.outcome \in {"returned_success", "returned_failure"})
    => opt_out.release_reached

\* C33: in a loaded session the prompts and the labels have the same length,
\* and they change together only: both are emptied (load, clear), or one
\* prompt and one label are appended at the same position (click), whatever
\* the click's outcome.
PromptsAndLabelsPaired ==
  /\ [](current_ply_data # None
          => Len(current_ply_data.prompts) = Len(current_ply_data.labels))
  /\ [][(/\ current_ply_data # None
         /\ current_ply_data' # None
         /\ <<current_ply_data.prompts, current_ply_data.labels>>
              # <<current_ply_data.prompts', current_ply_data.labels'>>)
          => \/ /\ current_ply_data.prompts' = <<>>
                /\ current_ply_data.labels' = <<>>
             \/ /\ Len(current_ply_data.prompts') > 0
                /\ Len(current_ply_data.prompts') = Len(current_ply_data.labels')
                /\ SubSeq(current_ply_data.prompts', 1,
                          Len(current_ply_data.prompts') - 1)
                     = current_ply_data.prompts
                /\ SubSeq(current_ply_data.labels', 1,
                          Len(current_ply_data.labels') - 1)
                     = current_ply_data.labels]_vars

\* A click whose prediction raised leaves a history of two prompts with two
\* different labels.
RaisedClickKeepsPairsReached ==
  /\ current_ply_data # None
  /\ seg_out # None
  /\ seg_out.op = "click"
  /\ seg_out.status = "500"
  /\ seg_out.predicted
  /\ Len(current_ply_data.prompts) = 2
  /\ Len(current_ply_data.labels) = 2
  /\ current_ply_data.labels[1] # current_ply_data.labels[2]

\* C34: in a loaded session a stored prompt_mask implies a non-empty prompt
\* history, and the mask changes to a stored one only in a step that appends
\* a prompt.
MaskImpliesPrompts ==
  /\ [](current_ply_data # None
          => (current_ply_data.prompt_mask # None
                => Len(current_ply_data.prompts) > 0))
  /\ [][(/\ current_ply_data' # None
         /\ current_ply_data'.prompt_mask # None
         /\ IF current_ply_data = None THEN TRUE
            ELSE current_ply_data'.prompt_mask # current_ply_data.prompt_mask)
          => /\ current_ply_data # None
             /\ Len(current_ply_data'.prompts)
                  = Len(current_ply_data.prompts) + 1]_vars

\* A click predicted without a seed mask on a loaded session and stored its
\* mask: the history holds this click's prompt.
MaskAfterReloadReached ==
  /\ current_ply_data # None
  /\ current_ply_data.prompt_mask # None
  /\ Len(current_ply_data.prompts) = 1
  /\ seg_out # None
  /\ seg_out.op = "click"
  /\ seg_out.predicted
  /\ seg_out.first

\* C35: a click answered 500 on a loaded session leaves the prompts, the
\* labels and the mask as they were before it.
FailedClickLeavesSession ==
  (/\ seg_out # None
   /\ seg_out.op = "click"
   /\ seg_out.was_loaded
   /\ seg_out.status = "500")
    => seg_out.history_unchanged /\ seg_out.mask_unchanged

\* C36: a /generate request answered 400 leaves the results folder as it
\* was: no folder of that request exists.
Rejected400LeavesNoFolder ==
  \A r \in 1..Len(reqs) :
    (reqs[r].pc = "done" /\ reqs[r].status = "400")
      => (reqs[r].generation_id = NoId
            \/ ~FolderExists(fs, reqs[r].generation_id))

\* C37: an optimize_model run that does not report success wrote none of
\* sample_optimized.glb, stresses.png and stresses_optimized.png.
FailedRunWritesNothing ==
  (opt_out # None /\ opt_out.outcome # "returned_success")
    => opt_out.written = 0

\* C38: a GET of the model_url returned for an /api/generate request serves
\* the complete model that this request's generation wrote, whatever
\* requests were served before or after it: the body sent is that model,
\* whole, of the length the response's Content-Length announced.
ModelUrlServesOwnModel ==
  (main_get # None /\ main_get.status = "200" /\ main_get.sent)
    => \A r \in 1..Len(main_reqs) :
         (main_reqs[r].status = "200" /\ main_reqs[r].model_url = main_get.url)
           => /\ main_get.served.by = r
              /\ main_get.served.complete
              /\ FileLength(main_get.served) = ContentLength(main_get)

====
